---- MODULE Spec2Model ----
(***************************************************************************)
(* Site-intelligence crawl pipeline (platform/backend): the job store,     *)
(* the config store, the five-phase crawlWebsite orchestrator with its     *)
(* page visits, the optional vision classifier, DOM probing with selector  *)
(* consensus.                                                              *)
(*                                                                         *)
(* One action is the code a crawl runs between two suspension points.      *)
(* Driver calls that the code does not wrap in try/catch may reject; the   *)
(* rejection propagates exactly as the try/catch/finally structure of the  *)
(* source dictates.  The job store and config store are synchronous file   *)
(* operations and are taken to succeed.  Every outcome of the environment  *)
(* other than the expected one (a navigation that fails, a rejected driver *)
(* call, a bad or failed vision reply, an empty discovery) is a fault; a   *)
(* crawl suffers at most MaxFaults of them.                                *)
(***************************************************************************)
EXTENDS Integers, Sequences, FiniteSets, TLC

\* ------------------------------------------------------------------ bounds
MaxFaults == 1      \* environment faults injected into one crawl

\* ------------------------------------------------------- program constants
CONTENT_THRESHOLD_PCT == 34
MAX_FALLBACKS         == 5
SUPPLEMENT_MIN_CATS   == 5
VLM_RECLASSIFY_ABOVE  == 80
REGISTRY_MAX_CATS     == 20
BACKFILL_SAMPLES      == 3

\* ------------------------------------------------------------- universes
JobIds    == {"j1"}
Domains   == {"shop.example", "other.example"}
PageTypes == {"home", "category", "product", "cart", "search", "other"}
typeOrder == <<"home", "category", "product", "cart", "search", "other">>

\* markers for "no such entry in the file"
NoJob    == [absent |-> "job"]
NoConfig == [absent |-> "config"]
NoError  == "none"

\* URLs the modelled site can expose, by the bucket discovery puts them in
RootUrl  == "/"
CatUrls  == <<"/c1">>
ProdUrls == <<"/c1/p/SKU1">>

\* category links the site exposes (navigation + home scan)
SiteCategories == Len(CatUrls)

\* --------------------------------------------------------------- helpers
IsPrefix(s, t) == Len(s) <= Len(t) /\ SubSeq(t, 1, Len(s)) = s

Min(a, b) == IF a <= b THEN a ELSE b

Range(s) == {s[i] : i \in 1..Len(s)}

Take(s, n) == SubSeq(s, 1, Min(n, Len(s)))

RECURSIVE SelectSeq2(_, _)
\* s.filter(x => x \notin drop)
SelectSeq2(s, drop) ==
  IF s = <<>> THEN <<>>
  ELSE IF Head(s) \in drop THEN SelectSeq2(Tail(s), drop)
       ELSE <<Head(s)>> \o SelectSeq2(Tail(s), drop)

\* A log line: its ordinal in the crawl's log array and what it reports.
AddLines(old, tags) ==
  old \o [i \in 1..Len(tags) |-> [n |-> Len(old) + i, tag |-> tags[i]]]

\* ------------------------------------------------------------- job store
createJobRecordMutRunning(d) ==
  [domain |-> d, status |-> "running", logs |-> <<>>,
   error |-> NoError, completed |-> FALSE]

createJobRecord(d) ==
  [domain |-> d, status |-> "pending", logs |-> <<>>,
   error |-> NoError, completed |-> FALSE]

\* { ...jobs[jobId], ...updates } when the job exists, else nothing
MergeRec(r, u) == [f \in DOMAIN r |-> IF f \in DOMAIN u THEN u[f] ELSE r[f]]

updateJobMutDropLogs(js, j, updates) ==
  IF js[j] # NoJob
    THEN [js EXCEPT ![j] =
            MergeRec(@, [f \in DOMAIN updates |->
                           IF f = "logs" /\ Len(updates[f]) > 0
                             THEN Tail(updates[f]) ELSE updates[f]])]
    ELSE js

updateJobMutNoStatus(js, j, updates) ==
  IF js[j] # NoJob
    THEN [js EXCEPT ![j] =
            MergeRec(@, [f \in DOMAIN updates \ {"status", "error"} |-> updates[f]])]
    ELSE js

updateJob(js, j, updates) ==
  IF js[j] # NoJob THEN [js EXCEPT ![j] = MergeRec(@, updates)] ELSE js

\* saveConfig(domain, config): the whole file is rewritten
saveConfigMutMerge(cs, d, config) ==
  IF cs[d] = NoConfig THEN [cs EXCEPT ![d] = config] ELSE cs

saveConfig(cs, d, config) == [cs EXCEPT ![d] = config]

\* ------------------------------------------------------------- taxonomy
\* ecommerce-taxonomy.ts: intents, their candidate selectors and groups
Intents == {"searchBar", "price", "addToCart", "productCards"}

TAXONOMY_GROUPS ==
  [global |-> <<"searchBar">>, pdp |-> <<"price", "addToCart">>,
   plp |-> <<"productCards">>, cart |-> <<>>]

ECOMMERCE_TAXONOMY ==
  [searchBar    |-> <<"input[type=search]">>,
   price        |-> <<"[data-testid=price]", ".pdp-price">>,
   addToCart    |-> <<"[data-testid=add-to-cart]">>,
   productCards |-> <<".product-card">>]

getIntentsForPageType(pageType) ==
  LET specific == CASE pageType = "product"  -> TAXONOMY_GROUPS.pdp
                    [] pageType = "category" -> TAXONOMY_GROUPS.plp
                    [] pageType = "search"   -> TAXONOMY_GROUPS.plp
                    [] pageType = "cart"     -> TAXONOMY_GROUPS.cart
                    [] OTHER                 -> <<>>
  IN TAXONOMY_GROUPS.global \o specific

\* ------------------------------------------------------ consensus scorer
\* stabilityScore(sel) in percent, the source's rules applied to the
\* selectors of ECOMMERCE_TAXONOMY above
stabilityScore(sel) ==
  CASE sel \in {"[data-testid=price]", "[data-testid=add-to-cart]"} -> 100
    [] sel \in {"#price"}                                           -> 95
    [] sel \in {"[itemprop=price]"}                                 -> 80
    [] sel \in {".pdp-price", ".product-card"}                      -> 70
    [] sel \in {"input[type=search]"}                               -> 65
    [] sel \in {".priceBox"}                                        -> 55
    [] sel \in {".css-1q2w3e4r5t6y"}                                -> 20
    [] OTHER                                                        -> 50

RECURSIVE Dedup(_, _)
\* Map insertion order: first occurrence of each selector
Dedup(s, seen) ==
  IF s = <<>> THEN <<>>
  ELSE IF Head(s) \in seen THEN Dedup(Tail(s), seen)
       ELSE <<Head(s)>> \o Dedup(Tail(s), seen \cup {Head(s)})

RECURSIVE probesOf(_, _)
\* every probe recorded for `intent`, page after page
probesOf(all, intent) ==
  IF all = <<>> THEN <<>>
  ELSE (IF intent \in DOMAIN Head(all) THEN Head(all)[intent] ELSE <<>>)
         \o probesOf(Tail(all), intent)

matchCount(all, intent, sel) ==
  LET ps == probesOf(all, intent)
  IN Cardinality({k \in 1..Len(ps) : ps[k].selector = sel /\ ps[k].matched})

contentCount(all, intent, sel) ==
  LET ps == probesOf(all, intent)
  IN Cardinality({k \in 1..Len(ps) : ps[k].selector = sel /\ ps[k].verified})

samplesContaining(all, intent) ==
  Cardinality({p \in 1..Len(all) :
     intent \in DOMAIN all[p] /\ \E k \in 1..Len(all[p][intent]) : all[p][intent][k].matched})

consensusBeforeMutStabilityFirst(all, intent, a, b) ==
  \/ stabilityScore(a) > stabilityScore(b)
  \/ /\ stabilityScore(a) = stabilityScore(b)
     /\ contentCount(all, intent, a) > contentCount(all, intent, b)

\* comparator of the sort: negative when a goes before b
consensusBefore(all, intent, a, b) ==
  \/ contentCount(all, intent, a) > contentCount(all, intent, b)
  \/ /\ contentCount(all, intent, a) = contentCount(all, intent, b)
     /\ stabilityScore(a) > stabilityScore(b)

RECURSIVE stableInsert(_, _, _, _)
stableInsert(all, intent, sorted, x) ==
  IF sorted = <<>> THEN <<x>>
  ELSE IF consensusBefore(all, intent, x, Head(sorted))
         THEN <<x>> \o sorted
         ELSE <<Head(sorted)>> \o stableInsert(all, intent, Tail(sorted), x)

RECURSIVE stableSort(_, _, _)
\* Array.prototype.sort is stable: equal keys keep insertion order
stableSort(all, intent, s) ==
  IF s = <<>> THEN <<>>
  ELSE stableInsert(all, intent, stableSort(all, intent, SubSeq(s, 1, Len(s) - 1)), s[Len(s)])

qualifies(all, intent, sel) ==
  contentCount(all, intent, sel) * 100 >= CONTENT_THRESHOLD_PCT * Len(all)

qualifiedMutNoCap(all, intent) ==
  LET ps    == probesOf(all, intent)
      order == Dedup([k \in 1..Len(ps) |-> ps[k].selector], {})
  IN stableSort(all, intent, SelectSeq(order, LAMBDA sel : qualifies(all, intent, sel)))

qualified(all, intent) ==
  LET ps    == probesOf(all, intent)
      order == Dedup([k \in 1..Len(ps) |-> ps[k].selector], {})
      kept  == SelectSeq(order, LAMBDA sel : qualifies(all, intent, sel))
  IN Take(stableSort(all, intent, kept), MAX_FALLBACKS)

consensusConfidenceMutNoCap(all, intent, sel) ==
  (2 * contentCount(all, intent, sel) * stabilityScore(sel) + Len(all)) \div (2 * Len(all))

\* Math.round(ratio * 100 * stability), capped at 100
consensusConfidence(all, intent, sel) ==
  LET c == contentCount(all, intent, sel)
      n == Len(all)
  IN Min(100, (2 * c * stabilityScore(sel) + n) \div (2 * n))

scoreConsensus(all) ==
  IF Len(all) = 0 THEN [i \in {} |-> <<>>]
  ELSE LET intents == UNION {DOMAIN all[p] : p \in 1..Len(all)}
           chain   == [i \in intents |-> qualified(all, i)]
           out     == {i \in intents : chain[i] # <<>>}
       IN [i \in out |->
             [selectors   |-> chain[i],
              confidence  |-> consensusConfidence(all, i, chain[i][1]),
              sampleCount |-> samplesContaining(all, i)]]

\* ------------------------------------------------------------ DOM probing
\* What a page shows to the probes: nothing (blank page), elements that
\* match but hold no content, or elements that match and verify.
PageContents == {"blank", "plain", "rich"}

probe(content, sel) ==
  [selector |-> sel,
   matched  |-> content \in {"plain", "rich"},
   verified |-> content = "rich"]

\* the per-page loop of phase2DomExtract over the relevant intents
probePage(pageType, content) ==
  LET rel    == getIntentsForPageType(pageType)
      probes == [i \in Range(rel) |->
                   [k \in 1..Len(ECOMMERCE_TAXONOMY[i]) |->
                      probe(content, ECOMMERCE_TAXONOMY[i][k])]]
      hit    == {i \in Range(rel) : \E k \in 1..Len(probes[i]) : probes[i][k].matched}
  IN [i \in hit |-> probes[i]]

\* ================================================================= state
VARIABLES
  jobs,        \* jobs.json: job id -> CrawlJob record or NoJob
  configs,     \* data/configs/<domain>.json: domain -> SiteConfig or NoConfig
  pc,          \* where each crawlWebsite call stands
  logs,        \* crawlWebsite's local `logs` array
  apiKey,      \* whether geminiApiKey is set
  browser,     \* "null" | "open" | "closed"
  closes,      \* calls of browser.close()
  pages,       \* pages opened with ctx.newPage() and not yet closed
  err,         \* message of the error being thrown to crawlWebsite's catch
  visionCalls, \* requests sent to the vision service
  mainNav,     \* category links of the main navigation
  samples,     \* sampleUrls: page type -> sampled URLs
  vclass,      \* visualClassifications (page type, confidence)
  registry,    \* UrlRegistry being built / built
  features,    \* Phase 3 features: page type -> Feature[]
  cur,         \* remaining items of the loop in progress
  ret,         \* which caller phase2DomExtract returns to
  dom,         \* accumulators of phase2DomExtract
  navOk,       \* whether navigateTo reached the page in the visit in progress
  elements,    \* `elements` of Phase 5, the consensus output of DOM probing
  saved,       \* calls of saveSiteConfig by each crawl
  faults,      \* environment faults the crawl has met
  fnArg,       \* argument handed to a pure function of the crawler
  fnOut,       \* what the function returned for it
  assoc        \* the extension's associate store

vars == <<jobs, configs, pc, logs, apiKey, browser, closes, pages, err,
          visionCalls, mainNav, samples, vclass, registry, features, cur,
          ret, dom, navOk, elements, saved, faults, fnArg, fnOut, assoc>>

\* state outside the crawl pipeline
benchVars == <<fnArg, fnOut, assoc>>

\* no call made yet
NoCall == [called |-> FALSE]

\* useAssociateStore's initial state
AssocInitial ==
  [isActive |-> FALSE, state |-> "idle", currentQuery |-> "",
   cursorPosition |-> [x |-> 0, y |-> 0]]

\* everything but the stores, the position, the log and the fault count
crawlVars == <<apiKey, browser, closes, pages, err, visionCalls, mainNav,
               samples, vclass, registry, features, cur, ret, dom, navOk,
               elements, saved>>

EmptyFn == [x \in {} |-> <<>>]

EmptyDom == [rules |-> EmptyFn, results |-> <<>>, counts |-> EmptyFn]

EmptyRegistry == [products |-> <<>>, categories |-> <<>>, patternTypes |-> {}]

\* a SiteConfig an earlier crawl of the domain left in the config store
OldConfig(d) ==
  [domain |-> d, crawledAt |-> "j0",
   pageTypes |-> [home |-> [confidence |-> 95, method |-> "home"]],
   elements |-> [legacy |-> [selectors |-> <<".old">>, confidence |-> 50, sampleCount |-> 1]],
   mainNav |-> 0, features |-> EmptyFn, products |-> <<>>, pagesVisited |-> EmptyFn]

\* data/configs before the crawl: one domain was crawled before
InitialConfigs ==
  [d \in Domains |-> IF d = "shop.example" THEN OldConfig(d) ELSE NoConfig]

\* no crawl has been requested
InitCrawl ==
  /\ jobs = [j \in JobIds |-> NoJob]
  /\ configs = InitialConfigs
  /\ pc = [j \in JobIds |-> "idle"]
  /\ logs = [j \in JobIds |-> <<>>]
  /\ apiKey = [j \in JobIds |-> FALSE]
  /\ browser = [j \in JobIds |-> "null"]
  /\ closes = [j \in JobIds |-> 0]
  /\ pages = [j \in JobIds |-> {}]
  /\ err = [j \in JobIds |-> NoError]
  /\ visionCalls = [j \in JobIds |-> 0]
  /\ mainNav = [j \in JobIds |-> 0]
  /\ samples = [j \in JobIds |-> EmptyFn]
  /\ vclass = [j \in JobIds |-> {}]
  /\ registry = [j \in JobIds |-> EmptyRegistry]
  /\ features = [j \in JobIds |-> EmptyFn]
  /\ cur = [j \in JobIds |-> <<>>]
  /\ ret = [j \in JobIds |-> "none"]
  /\ dom = [j \in JobIds |-> EmptyDom]
  /\ navOk = [j \in JobIds |-> FALSE]
  /\ elements = [j \in JobIds |-> EmptyFn]
  /\ saved = [j \in JobIds |-> 0]
  /\ faults = [j \in JobIds |-> 0]

Init ==
  /\ InitCrawl
  /\ fnArg = NoCall
  /\ fnOut = NoCall
  /\ assoc = AssocInitial

\* ------------------------------------------------- crawlWebsite plumbing
\* log(msg) for each tag: push on the local array, then updateJob(jobId,
\* { logs: [...logs] }); `more` are further fields written by an awaited
\* updateJob in the same synchronous stretch.
LogAnd(j, tags, more) ==
  LET L == AddLines(logs[j], tags)
  IN /\ logs' = [logs EXCEPT ![j] = L]
     /\ jobs' = updateJob(jobs, j, [f \in {"logs"} \cup DOMAIN more |->
                                      IF f = "logs" THEN L ELSE more[f]])

LogMutLocalOnly(j, tags) ==
  /\ logs' = [logs EXCEPT ![j] = AddLines(@, tags)]
  /\ UNCHANGED jobs

Log(j, tags) == LogAnd(j, tags, EmptyFn)

\* cc.apiKey: geminiApiKey ?? null, tested by every `if (apiKey)`
ccApiKeyMutAlways(key) == TRUE

ccApiKey(key) == key

\* the environment deviates n times in this step
Budget(j, n) ==
  /\ faults[j] + n <= MaxFaults
  /\ faults' = [faults EXCEPT ![j] = @ + n]

Cost(o) == IF o = "ok" THEN 0 ELSE 1

\* an error leaves the try block of crawlWebsite
Throw(j, msg) ==
  /\ err' = [err EXCEPT ![j] = msg]
  /\ pc' = [pc EXCEPT ![j] = "catch"]

Goto(j, where) == pc' = [pc EXCEPT ![j] = where]

\* const page = await ctx.newPage(): the page exists from here on, or the
\* call rejects and the error propagates
newPage(j, name, next) ==
  \/ /\ pages' = [pages EXCEPT ![j] = @ \cup {name}]
     /\ Goto(j, next)
     /\ Budget(j, 0)
     /\ UNCHANGED err
  \/ /\ Throw(j, "newPage failed")
     /\ Budget(j, 1)
     /\ UNCHANGED pages

ClosePage(j, name) == pages' = [pages EXCEPT ![j] = @ \ {name}]

\* ------------------------------------------------------------ POST /crawl
\* createJob(jobId, domain, url); the store holds "pending" until
\* crawlWebsite, called next in the same handler, writes "running"
createJob(j, d, key) ==
  /\ pc[j] = "idle"
  /\ jobs' = [jobs EXCEPT ![j] = createJobRecord(d)]
  /\ apiKey' = [apiKey EXCEPT ![j] = key]
  /\ Goto(j, "start")
  /\ UNCHANGED <<configs, logs, browser, closes, pages, err, visionCalls,
                 mainNav, samples, vclass, registry, features, cur, ret, dom,
                 navOk, elements, saved, faults>>
  /\ UNCHANGED benchVars

\* crawlWebsite up to `await updateJob(jobId, {status:'running', logs})`
crawlStart(j) ==
  /\ pc[j] = "start"
  /\ LogAnd(j, <<"start", "info">>, [status |-> "running"])
  /\ Goto(j, "launch")
  /\ UNCHANGED <<configs, faults>> /\ UNCHANGED crawlVars
  /\ UNCHANGED benchVars

\* chromium.launch(...)
launchBrowser(j) ==
  /\ pc[j] = "launch"
  /\ \/ /\ browser' = [browser EXCEPT ![j] = "open"]
        /\ Goto(j, "context")
        /\ Budget(j, 0)
        /\ UNCHANGED err
     \/ /\ Throw(j, "launch failed")
        /\ Budget(j, 1)
        /\ UNCHANGED browser
  /\ UNCHANGED <<jobs, configs, logs, apiKey, closes, pages, visionCalls,
                 mainNav, samples, vclass, registry, features, cur, ret, dom,
                 navOk, elements, saved>>
  /\ UNCHANGED benchVars

\* browser.newContext(...), ctx.addInitScript(...), then Phase 1 begins
newContext(j) ==
  /\ pc[j] = "context"
  /\ \/ /\ Log(j, <<"phase1">>)
        /\ Goto(j, "p1_open")
        /\ Budget(j, 0)
        /\ UNCHANGED err
     \/ /\ Throw(j, "context failed")
        /\ Budget(j, 1)
        /\ UNCHANGED <<jobs, logs>>
  /\ UNCHANGED <<configs, apiKey, browser, closes, pages, visionCalls,
                 mainNav, samples, vclass, registry, features, cur, ret, dom,
                 navOk, elements, saved>>
  /\ UNCHANGED benchVars

\* ------------------------------------------------------- page-visit inputs
\* navigateTo: the page loaded, every attempt failed (logged, returns
\* normally), or the wait between attempts rejected (the page is gone)
NavOutcomes == {"ok", "failed", "rejected"}

\* what the vision service sends back to classifyPageVisually
ClassifyReplies == {"ok", "unparseable", "error"}

\* analyses a parseable classification reply can carry
VlmAnalyses ==
  {[pageType |-> "category", confidence |-> 90],
   [pageType |-> "product",  confidence |-> 90]}

HomeAnalyses == {[pageType |-> "home", confidence |-> 90]}

\* the catch branch of classifyPageVisually
EmptyAnalysis == [pageType |-> "other", confidence |-> 0]

Bucket(s, t) == IF t \in DOMAIN s THEN s[t] ELSE <<>>

SetBucket(s, t, v) == [x \in DOMAIN s \cup {t} |-> IF x = t THEN v ELSE s[x]]

\* --------------------------------------------------- phase1Reconnaissance
\* const homePage = await ctx.newPage()
p1OpenHome(j) ==
  /\ pc[j] = "p1_open"
  /\ newPage(j, "home", "p1_home")
  /\ UNCHANGED <<jobs, configs, logs, apiKey, browser, closes, visionCalls,
                 mainNav, samples, vclass, registry, features, cur, ret, dom,
                 navOk, elements, saved>>
  /\ UNCHANGED benchVars

\* navigateTo(homePage), dismissPopups, homePage.waitForTimeout(3000),
\* extractMainNav, log -- none of it inside a try
p1Home(j) ==
  /\ pc[j] = "p1_home"
  /\ \E o \in NavOutcomes, crash \in BOOLEAN :
       /\ Budget(j, Cost(o) + (IF crash THEN 1 ELSE 0))
       /\ (o = "rejected" => ~crash)
       /\ IF o = "rejected" \/ crash
            THEN /\ Throw(j, "page crashed")
                 /\ IF o = "failed" THEN Log(j, <<"navfail">>)
                                    ELSE UNCHANGED <<jobs, logs>>
                 /\ UNCHANGED mainNav
            ELSE /\ \E n \in (IF o = "ok" THEN 0..SiteCategories ELSE {0}) :
                      mainNav' = [mainNav EXCEPT ![j] = n]
                 /\ Log(j, (IF o = "failed" THEN <<"navfail">> ELSE <<>>) \o <<"info">>)
                 /\ Goto(j, IF ccApiKey(apiKey[j]) THEN "p1_vlm" ELSE "p1_discover")
                 /\ UNCHANGED err
  /\ UNCHANGED <<configs, apiKey, browser, closes, pages, visionCalls,
                 samples, vclass, registry, features, cur, ret, dom, navOk,
                 elements, saved>>
  /\ UNCHANGED benchVars

\* if (apiKey) try { classifyPageVisually(homePage) ... } catch { log }
p1HomeVision(j) ==
  /\ pc[j] = "p1_vlm"
  /\ visionCalls' = [visionCalls EXCEPT ![j] = @ + 1]
  /\ \E r \in ClassifyReplies :
       /\ Budget(j, Cost(r))
       /\ \/ /\ r = "ok"
             /\ \E a \in HomeAnalyses : vclass' = [vclass EXCEPT ![j] = @ \cup {a}]
             /\ Log(j, <<"info">>)
          \/ /\ r = "unparseable"
             /\ vclass' = [vclass EXCEPT ![j] = @ \cup {EmptyAnalysis}]
             /\ Log(j, <<"malformed">>)
          \/ /\ r = "error"
             /\ Log(j, <<"caught">>)
             /\ UNCHANGED vclass
  /\ Goto(j, "p1_discover")
  /\ UNCHANGED <<configs, apiKey, browser, closes, pages, err, mainNav,
                 samples, registry, features, cur, ret, dom, navOk, elements,
                 saved>>
  /\ UNCHANGED benchVars

\* the non-home buckets with their URL arrays, as Object.entries captured
\* them before the loop
bucketHeads(s) ==
  SelectSeq([i \in 1..2 |-> <<<<"category", "product">>[i],
                               Bucket(s, <<"category", "product">>[i])>>],
            LAMBDA e : e[2] # <<>>)

\* what discoverUrls samples: a category and a product URL, or nothing
\* (no sitemap, no usable seeds)
Discoveries ==
  {EmptyFn, [category |-> <<CatUrls[1]>>, product |-> <<ProdUrls[1]>>]}

\* discoverUrls (catches everything itself), homePage.close(), the home
\* bucket is ensured
p1Discover(j) ==
  /\ pc[j] = "p1_discover"
  /\ \E found \in Discoveries :
       LET s == SetBucket(found, "home", <<RootUrl>>)
       IN /\ Budget(j, IF found = EmptyFn THEN 1 ELSE 0)
          /\ samples' = [samples EXCEPT ![j] = s]
          /\ cur' = [cur EXCEPT ![j] = IF ccApiKey(apiKey[j]) THEN bucketHeads(s) ELSE <<>>]
  /\ Log(j, <<"info">>)
  /\ ClosePage(j, "home")
  /\ Goto(j, "p1_bucket")
  /\ UNCHANGED <<configs, apiKey, browser, closes, err, visionCalls, mainNav,
                 vclass, registry, features, ret, dom, navOk, elements, saved>>
  /\ UNCHANGED benchVars

\* const page = await ctx.newPage() for the next bucket
p1BucketOpen(j) ==
  /\ pc[j] = "p1_bucket"
  /\ cur[j] # <<>>
  /\ newPage(j, "vlm", "p1_bucket_visit")
  /\ UNCHANGED <<jobs, configs, logs, apiKey, browser, closes, visionCalls,
                 mainNav, samples, vclass, registry, features, cur, ret, dom,
                 navOk, elements, saved>>
  /\ UNCHANGED benchVars

shouldReclassifyMutAtLeast(analysis, pageType) ==
  analysis.pageType # pageType /\ analysis.confidence >= VLM_RECLASSIFY_ABOVE

\* the condition of line 792
shouldReclassify(analysis, pageType) ==
  analysis.pageType # pageType /\ analysis.confidence > VLM_RECLASSIFY_ABOVE

\* samples after `samples[to].push(u); samples[from] = urls.filter(...)`
reclassify(s, from, to, u) ==
  LET s1 == SetBucket(s, to, Bucket(s, to) \o <<u>>)
  IN SetBucket(s1, from, SelectSeq2(Bucket(s1, from), {u}))

\* try { navigateTo; classifyPageVisually; reclassify } catch { log }
\* finally { page.close() }
p1BucketVisit(j) ==
  /\ pc[j] = "p1_bucket_visit"
  /\ LET pageType == Head(cur[j])[1]
         url      == Head(cur[j])[2][1]
     IN \E o \in NavOutcomes, r \in ClassifyReplies :
          /\ Budget(j, Cost(o) + Cost(r))
          /\ \/ /\ o = "rejected" /\ r = "ok"
                /\ Log(j, <<"caught">>)
                /\ UNCHANGED <<visionCalls, vclass, samples>>
             \/ /\ o # "rejected"
                /\ visionCalls' = [visionCalls EXCEPT ![j] = @ + 1]
                /\ LET nav == IF o = "failed" THEN <<"navfail">> ELSE <<>>
                   IN \/ /\ r = "ok"
                         /\ \E a \in VlmAnalyses :
                              /\ vclass' = [vclass EXCEPT ![j] = @ \cup {a}]
                              /\ IF shouldReclassify(a, pageType)
                                   THEN /\ samples' = [samples EXCEPT ![j] =
                                              reclassify(@, pageType, a.pageType, url)]
                                        /\ Log(j, nav \o <<"info", "reclassified">>)
                                   ELSE /\ UNCHANGED samples
                                        /\ Log(j, nav \o <<"info">>)
                      \/ /\ r = "unparseable"
                         /\ vclass' = [vclass EXCEPT ![j] = @ \cup {EmptyAnalysis}]
                         /\ Log(j, nav \o <<"malformed">>)
                         /\ UNCHANGED samples
                      \/ /\ r = "error"
                         /\ Log(j, nav \o <<"caught">>)
                         /\ UNCHANGED <<vclass, samples>>
  /\ ClosePage(j, "vlm")
  /\ cur' = [cur EXCEPT ![j] = Tail(@)]
  /\ Goto(j, "p1_bucket")
  /\ UNCHANGED <<configs, apiKey, browser, closes, err, mainNav, registry,
                 features, ret, dom, navOk, elements, saved>>
  /\ UNCHANGED benchVars

\* ------------------------------------------------- Phase 2: URL registry
\* a visit whose body sits in try/catch/finally: it ran through, ran
\* through on a page that never loaded, or threw into the catch
VisitOutcomes == {"ok", "navfail", "caught"}

VisitLog(o, tags) ==
  CASE o = "ok"      -> tags
    [] o = "navfail" -> <<"navfail">> \o tags
    [] OTHER         -> <<"caught">>

\* buildUrlRegistry up to its loop: the category URLs of the navigation
registryStart(n) == [i \in 1..Min(n, Min(REGISTRY_MAX_CATS, Len(CatUrls))) |-> i]

\* end of phase1Reconnaissance, "Phase 2" banner, supplementNavWithHomePageLinks
\* up to its newPage (or straight into buildUrlRegistry with 5+ links)
p1End(j) ==
  /\ pc[j] = "p1_bucket"
  /\ cur[j] = <<>>
  /\ Log(j, <<"info", "phase2", "info">>)
  /\ IF mainNav[j] >= SUPPLEMENT_MIN_CATS
       THEN /\ cur' = [cur EXCEPT ![j] = registryStart(mainNav[j])]
            /\ Goto(j, "p2_cat")
       ELSE /\ UNCHANGED cur
            /\ Goto(j, "p2_sup_open")
  /\ UNCHANGED <<configs, apiKey, browser, closes, pages, err, visionCalls,
                 mainNav, samples, vclass, registry, features, ret, dom,
                 navOk, elements, saved, faults>>
  /\ UNCHANGED benchVars

p2SupOpen(j) ==
  /\ pc[j] = "p2_sup_open"
  /\ newPage(j, "sup", "p2_sup_visit")
  /\ UNCHANGED <<jobs, configs, logs, apiKey, browser, closes, visionCalls,
                 mainNav, samples, vclass, registry, features, cur, ret, dom,
                 navOk, elements, saved>>
  /\ UNCHANGED benchVars

\* the try/catch/finally of supplementNavWithHomePageLinks (a loaded home
\* page shows every category link of the site), then the start of
\* buildUrlRegistry with the enriched navigation
p2SupVisit(j) ==
  /\ pc[j] = "p2_sup_visit"
  /\ \E o \in VisitOutcomes :
       LET t == IF o = "ok" THEN SiteCategories ELSE mainNav[j]
       IN /\ Budget(j, Cost(o))
          /\ Log(j, VisitLog(o, IF t > mainNav[j] THEN <<"info", "info">> ELSE <<>>)
                      \o <<"info">>)
          /\ cur' = [cur EXCEPT ![j] = registryStart(t)]
  /\ ClosePage(j, "sup")
  /\ Goto(j, "p2_cat")
  /\ UNCHANGED <<configs, apiKey, browser, closes, err, visionCalls, mainNav,
                 samples, vclass, registry, features, ret, dom, navOk,
                 elements, saved>>
  /\ UNCHANGED benchVars

\* categories.push(cat); log; const page = await ctx.newPage()
p2CatOpen(j) ==
  /\ pc[j] = "p2_cat"
  /\ cur[j] # <<>>
  /\ registry' = [registry EXCEPT ![j].categories = @ \o <<CatUrls[Head(cur[j])]>>]
  /\ Log(j, <<"info">>)
  /\ newPage(j, "cat", "p2_cat_visit")
  /\ UNCHANGED <<configs, apiKey, browser, closes, visionCalls, mainNav,
                 samples, vclass, features, cur, ret, dom, navOk, elements,
                 saved>>
  /\ UNCHANGED benchVars

\* products.push for every URL not in seenProductUrls
addProducts(products, found) == products \o SelectSeq2(found, Range(products))

\* the category visit of buildUrlRegistry: the product links of a loaded
\* listing (pagination included) are collected, errors are logged, the
\* page is closed
p2CatVisit(j) ==
  /\ pc[j] = "p2_cat_visit"
  /\ \E o \in VisitOutcomes :
       /\ Budget(j, Cost(o))
       /\ registry' = [registry EXCEPT ![j].products =
                          IF o = "ok" THEN addProducts(@, <<ProdUrls[Head(cur[j])]>>) ELSE @]
       /\ Log(j, VisitLog(o, <<"info">>))
  /\ ClosePage(j, "cat")
  /\ cur' = [cur EXCEPT ![j] = Tail(@)]
  /\ Goto(j, "p2_cat")
  /\ UNCHANGED <<configs, apiKey, browser, closes, err, visionCalls, mainNav,
                 samples, vclass, features, ret, dom, navOk, elements, saved>>
  /\ UNCHANGED benchVars

\* validateUrls: const page = await ctx.newPage()
p2ValidateOpen(j) ==
  /\ pc[j] = "p2_cat"
  /\ cur[j] = <<>>
  /\ Log(j, <<"info">>)
  /\ newPage(j, "validate", "p2_validate")
  /\ UNCHANGED <<configs, apiKey, browser, closes, visionCalls, mainNav,
                 samples, vclass, registry, features, cur, ret, dom, navOk,
                 elements, saved>>
  /\ UNCHANGED benchVars

\* page types for which deriveUrlPatterns emits a pattern
deriveUrlPatterns(products, categories) ==
  {"home", "cart", "search"}
    \cup (IF Len(products) > 0 THEN {"product"} ELSE {})
    \cup (IF Len(categories) >= 3 THEN {"category"} ELSE {})

\* one product per category in the registry, so round-robin is the prefix
pickDiverseProducts(products, n) == Take(products, n)

\* lines 592-611 of crawlWebsite: registry URLs fill thin sample buckets
backfill(s, reg) ==
  LET s1 == IF Len(reg.products) > 0 /\ Bucket(s, "product") = <<>>
              THEN SetBucket(s, "product", pickDiverseProducts(reg.products, BACKFILL_SAMPLES))
              ELSE s
  IN IF Len(reg.categories) > 0 /\ Len(Bucket(s1, "category")) < 2
       THEN SetBucket(s1, "category", Take(reg.categories, BACKFILL_SAMPLES))
       ELSE s1

\* --------------------------------------------------- phase2DomExtract setup
\* the (pageType, url) visits of phase2DomExtract in typeOrder
domVisits(s) ==
  LET f[i \in 0..Len(typeOrder)] ==
        IF i = 0 THEN <<>>
        ELSE f[i - 1] \o [k \in 1..Len(Bucket(s, typeOrder[i])) |->
                            <<typeOrder[i], Bucket(s, typeOrder[i])[k]>>]
  IN f[Len(typeOrder)]

\* pageTypeSampleCounts[pageType] = urls.length for every non-empty bucket
sampleCounts(s) ==
  [t \in {x \in DOMAIN s : s[x] # <<>>} |-> Len(s[t])]

domStart(s) == [rules |-> EmptyFn, results |-> <<>>, counts |-> sampleCounts(s)]

\* page types extractFeatures visits: those with a sample URL
featureTypes(s) ==
  SelectSeq(<<"home", "category", "product", "cart">>,
            LAMBDA t : Bucket(s, t) # <<>>)

\* validateUrls' loop (every goto is caught; a URL that does not answer is
\* logged) and page.close(), the rest of buildUrlRegistry, lines 590-627
\* of crawlWebsite, then the first step of extractFeatures or of
\* phase2DomExtract
p2Validate(j) ==
  /\ pc[j] = "p2_validate"
  /\ ClosePage(j, "validate")
  /\ LET reg == [registry[j] EXCEPT !.patternTypes =
                    deriveUrlPatterns(registry[j].products, registry[j].categories)]
         s   == backfill(samples[j], reg)
     IN /\ registry' = [registry EXCEPT ![j] = reg]
        /\ samples' = [samples EXCEPT ![j] = s]
        /\ \E bad \in (IF Len(reg.products) > 0 THEN BOOLEAN ELSE {FALSE}) :
             LET head == (IF bad THEN <<"invalid">> ELSE <<>>) \o <<"info", "phase3">>
             IN /\ Budget(j, IF bad THEN 1 ELSE 0)
                /\ IF ccApiKey(apiKey[j])
                     THEN /\ Log(j, head)
                          /\ cur' = [cur EXCEPT ![j] = featureTypes(s)]
                          /\ Goto(j, "p3_feat")
                          /\ UNCHANGED <<ret, dom>>
                     ELSE /\ Log(j, head \o <<"novlm">>)
                          /\ cur' = [cur EXCEPT ![j] = domVisits(s)]
                          /\ dom' = [dom EXCEPT ![j] = domStart(s)]
                          /\ ret' = [ret EXCEPT ![j] = "p3"]
                          /\ Goto(j, "dom")
  /\ UNCHANGED <<configs, apiKey, browser, closes, err, visionCalls, mainNav,
                 vclass, features, navOk, elements, saved>>
  /\ UNCHANGED benchVars

\* ------------------------------------------- Phase 3 with a vision key
\* what the vision service sends back to detectFeaturesVisually: a feature
\* list, text that is not JSON, JSON whose feature has a non-string name,
\* or an HTTP error / empty body
FeatureReplies == {"ok", "unparseable", "mistyped", "error"}

\* analyzeUrlInteractions: usesUrlFiltering true / false, or an error
UrlReplies == {"url", "dom", "error"}

\* the Feature[] detectFeaturesVisually returns for a reply
detectFeaturesVisually(reply) ==
  CASE reply = "ok"       -> <<[id |-> "f1", type |-> "filter", nameOk |-> TRUE]>>
    [] reply = "mistyped" -> <<[id |-> "f1", type |-> "filter", nameOk |-> FALSE]>>
    [] OTHER              -> <<>>

\* feature.name.toLowerCase() on a feature of one of `types`
nameThrows(fs, types) ==
  \E k \in 1..Len(fs) : fs[k].type \in types /\ ~fs[k].nameOk

SetFeatures(j, t, fs) ==
  features' = [features EXCEPT ![j] = SetBucket(@, t, fs)]

p3FeatOpen(j) ==
  /\ pc[j] = "p3_feat"
  /\ cur[j] # <<>>
  /\ Log(j, <<"info">>)
  /\ newPage(j, "feat", "p3_feat_visit")
  /\ UNCHANGED <<configs, apiKey, browser, closes, visionCalls, mainNav,
                 samples, vclass, registry, features, cur, ret, dom, navOk,
                 elements, saved>>
  /\ UNCHANGED benchVars

\* the try body of extractFeatures up to the extra-sample loop; the catch
\* stores an empty list, the finally closes the page
p3FeatVisit(j) ==
  /\ pc[j] = "p3_feat_visit"
  /\ LET t      == Head(cur[j])
         extras == Min(Len(samples[j][t]) - 1, 2)
     IN \E o \in VisitOutcomes, f \in FeatureReplies, u \in UrlReplies :
          LET fs     == detectFeaturesVisually(f)
              isCat  == t = "category"
              thrown == \/ o = "caught"
                        \/ f = "error"
                        \/ isCat /\ u = "error"
                        \/ isCat /\ u = "url" /\ nameThrows(fs, {"filter", "sort"})
              calls  == IF o = "caught" THEN 0
                        ELSE IF f = "error" \/ ~isCat THEN 1 ELSE 2
              nav    == IF o = "navfail" THEN <<"navfail">> ELSE <<>>
              seen   == IF f = "unparseable" THEN <<"malformed">> ELSE <<>>
          IN /\ (~isCat => u = "dom")
             /\ (o = "caught" => f = "ok" /\ u = "dom")
             /\ (f = "error" => u = "dom")
             /\ Budget(j, Cost(o) + Cost(f) + (IF u = "error" THEN 1 ELSE 0))
             /\ visionCalls' = [visionCalls EXCEPT ![j] = @ + calls]
             /\ IF thrown
                  THEN /\ Log(j, nav \o seen \o <<"caught">>)
                       /\ SetFeatures(j, t, <<>>)
                       /\ ClosePage(j, "feat")
                       /\ cur' = [cur EXCEPT ![j] = Tail(@)]
                       /\ Goto(j, "p3_feat")
                  ELSE IF extras > 0
                  THEN /\ Log(j, nav \o seen \o <<"info">>)
                       /\ SetFeatures(j, t, fs)
                       /\ cur' = [cur EXCEPT ![j] = <<<<t, extras>>>> \o Tail(@)]
                       /\ Goto(j, "p3_verify")
                       /\ UNCHANGED pages
                  ELSE /\ Log(j, nav \o seen \o <<"info">>)
                       /\ SetFeatures(j, t, fs)
                       /\ ClosePage(j, "feat")
                       /\ cur' = [cur EXCEPT ![j] = Tail(@)]
                       /\ Goto(j, "p3_feat")
  /\ UNCHANGED <<configs, apiKey, browser, closes, err, mainNav, samples,
                 vclass, registry, ret, dom, navOk, elements, saved>>
  /\ UNCHANGED benchVars

\* verifyFeaturesOnPage: const page = await ctx.newPage(); a rejection
\* lands in the catch of extractFeatures
p3VerifyOpen(j) ==
  /\ pc[j] = "p3_verify"
  /\ \/ /\ pages' = [pages EXCEPT ![j] = @ \cup {"verify"}]
        /\ Goto(j, "p3_verify_visit")
        /\ Budget(j, 0)
        /\ UNCHANGED <<jobs, logs, features, cur>>
     \/ /\ Log(j, <<"caught">>)
        /\ Budget(j, 1)
        /\ SetFeatures(j, Head(cur[j])[1], <<>>)
        /\ ClosePage(j, "feat")
        /\ cur' = [cur EXCEPT ![j] = Tail(@)]
        /\ Goto(j, "p3_feat")
  /\ UNCHANGED <<configs, apiKey, browser, closes, err, visionCalls, mainNav,
                 samples, vclass, registry, ret, dom, navOk, elements, saved>>
  /\ UNCHANGED benchVars

\* the try/catch/finally of verifyFeaturesOnPage; after the last extra
\* sample the features are stored and the feature page is closed
p3VerifyVisit(j) ==
  /\ pc[j] = "p3_verify_visit"
  /\ LET t    == Head(cur[j])[1]
         left == Head(cur[j])[2] - 1
     IN \E o \in VisitOutcomes :
          /\ Budget(j, Cost(o))
          /\ IF left > 0
               THEN /\ Log(j, VisitLog(o, <<"info">>))
                    /\ pages' = [pages EXCEPT ![j] = @ \ {"verify"}]
                    /\ cur' = [cur EXCEPT ![j] = <<<<t, left>>>> \o Tail(@)]
                    /\ Goto(j, "p3_verify")
               ELSE /\ Log(j, VisitLog(o, <<"info">>) \o <<"info">>)
                    /\ pages' = [pages EXCEPT ![j] = @ \ {"verify", "feat"}]
                    /\ cur' = [cur EXCEPT ![j] = Tail(@)]
                    /\ Goto(j, "p3_feat")
  /\ UNCHANGED <<configs, apiKey, browser, closes, err, visionCalls, mainNav,
                 samples, vclass, registry, features, ret, dom, navOk,
                 elements, saved>>
  /\ UNCHANGED benchVars

\* ------------------------------------------------------ Phase 4: recipes
\* typeMap of convertElementsToFeatures restricted to the modelled intents
featureTypeMap ==
  [searchBar |-> [pageType |-> "home",    featureType |-> "search"],
   addToCart |-> [pageType |-> "product", featureType |-> "cta"]]

convertElementsToFeatures(els) ==
  LET keys  == DOMAIN els \cap DOMAIN featureTypeMap
      types == {featureTypeMap[k].pageType : k \in keys}
  IN [t \in types |->
        LET k == CHOOSE x \in keys : featureTypeMap[x].pageType = t
        IN <<[id |-> k, type |-> featureTypeMap[k].featureType, nameOk |-> TRUE]>>]

\* page types of the generated recipes, in Object.entries order
recipePages(fs) ==
  LET order == SelectSeq(<<"home", "category", "product", "cart">>,
                         LAMBDA t : t \in DOMAIN fs)
      f[i \in 0..Len(order)] ==
        IF i = 0 THEN <<>>
        ELSE f[i - 1] \o [k \in 1..Len(fs[order[i]]) |-> order[i]]
  IN f[Len(order)]

\* generateFilterRecipe reads feature.name.toLowerCase() outside any try
buildRecipesThrows(fs) == \E t \in DOMAIN fs : nameThrows(fs[t], {"filter"})

\* validateRecipes visits the first sample of the first five recipes
validateList(fs, s) ==
  SelectSeq(Take(recipePages(fs), 5), LAMBDA t : Bucket(s, t) # <<>>)

\* "Phase 4" banner and buildRecipes up to its first page (or its throw)
phase4Start(j, fs, before) ==
  IF buildRecipesThrows(fs)
    THEN /\ Log(j, before \o <<"phase4">>)
         /\ Throw(j, "TypeError")
         /\ UNCHANGED cur
    ELSE /\ Log(j, before \o <<"phase4">> \o [k \in 1..Len(recipePages(fs)) |-> "recipe"])
         /\ cur' = [cur EXCEPT ![j] = validateList(fs, samples[j])]
         /\ Goto(j, "p4_val")
         /\ UNCHANGED err

\* extractFeatures returned
p3End(j) ==
  /\ pc[j] = "p3_feat"
  /\ cur[j] = <<>>
  /\ phase4Start(j, features[j], <<>>)
  /\ UNCHANGED <<configs, apiKey, browser, closes, pages, visionCalls,
                 mainNav, samples, vclass, registry, features, ret, dom,
                 navOk, elements, saved, faults>>
  /\ UNCHANGED benchVars

p4ValOpen(j) ==
  /\ pc[j] = "p4_val"
  /\ cur[j] # <<>>
  /\ newPage(j, "recipe", "p4_val_visit")
  /\ UNCHANGED <<jobs, configs, logs, apiKey, browser, closes, visionCalls,
                 mainNav, samples, vclass, registry, features, cur, ret, dom,
                 navOk, elements, saved>>
  /\ UNCHANGED benchVars

\* try { goto; dismissPopups; steps } catch { log } finally { page.close() }
p4ValVisit(j) ==
  /\ pc[j] = "p4_val_visit"
  /\ \E o \in {"ok", "caught"} :
       /\ Budget(j, Cost(o))
       /\ Log(j, VisitLog(o, <<"info">>))
  /\ ClosePage(j, "recipe")
  /\ cur' = [cur EXCEPT ![j] = Tail(@)]
  /\ Goto(j, "p4_val")
  /\ UNCHANGED <<configs, apiKey, browser, closes, err, visionCalls, mainNav,
                 samples, vclass, registry, features, ret, dom, navOk,
                 elements, saved>>
  /\ UNCHANGED benchVars

\* buildRecipes returned; "Phase 5" banner; phase2DomExtract starts
p4End(j) ==
  /\ pc[j] = "p4_val"
  /\ cur[j] = <<>>
  /\ Log(j, <<"info", "phase5">>)
  /\ cur' = [cur EXCEPT ![j] = domVisits(samples[j])]
  /\ dom' = [dom EXCEPT ![j] = domStart(samples[j])]
  /\ ret' = [ret EXCEPT ![j] = "p5"]
  /\ Goto(j, "dom")
  /\ UNCHANGED <<configs, apiKey, browser, closes, pages, err, visionCalls,
                 mainNav, samples, vclass, registry, features, navOk,
                 elements, saved, faults>>
  /\ UNCHANGED benchVars

\* -------------------------------------------------------- page classifier
\* new URL(urlStr) of the crawl's URLs: pathname.split('/').filter(Boolean)
\* and the search string
parseUrl(url) ==
  CASE url = RootUrl           -> [segs |-> <<>>, search |-> ""]
    [] url \in Range(CatUrls)  -> [segs |-> <<"c1">>, search |-> ""]
    [] OTHER                   -> [segs |-> <<"c1", "p", "SKU1">>, search |-> ""]

\* t.toLowerCase() on the @type values of the model
lowerType(t) ==
  CASE t = "Product"        -> "product"
    [] t = "ItemList"       -> "itemlist"
    [] t = "Order"          -> "order"
    [] t = "WebSite"        -> "website"
    [] t = "BreadcrumbList" -> "breadcrumblist"
    [] OTHER                -> t

\* page type of the JSON-LD @type values, "none" for null
jsonLdTypeToPageType(types) ==
  LET normalized == {lowerType(types[k]) : k \in 1..Len(types)}
  IN IF normalized \cap {"product", "offer", "individualoffer"} # {}
       THEN "product"
     ELSE IF normalized \cap {"itemlist", "collectionpage", "productcollection",
                              "offeraggregate", "aggregateoffer"} # {}
       THEN "category"
     ELSE IF normalized \cap {"order", "cart", "checkout"} # {} THEN "cart"
     ELSE IF normalized \cap {"website", "webpage", "webapplication"} # {}
       THEN "home"
     ELSE IF normalized \cap {"searchresultspage"} # {} THEN "search"
     ELSE "none"

\* pathname.toLowerCase(), segment by segment
lowerSeg(seg) == IF seg = "BED2041X" THEN "bed2041x"
                 ELSE IF seg = "SKU1" THEN "sku1" ELSE seg

\* /\/(cart|basket|bag|trolley)(\/|$)/
cartRule(u) ==
  \E k \in 1..Len(u.segs) :
    lowerSeg(u.segs[k]) \in {"cart", "basket", "bag", "trolley"}

\* /\/(search|find|results?)(\/|$)/, or 'q=' / 'query=' in the search string
searchRule(u) ==
  \/ \E k \in 1..Len(u.segs) :
       lowerSeg(u.segs[k]) \in {"search", "find", "result", "results"}
  \/ u.search \in {"?q=sofa"}

\* /\/(login|signin|...|account|...|investor)/i: a segment that begins
\* with a utility keyword
utilityRule(u) ==
  \E k \in 1..Len(u.segs) : lowerSeg(u.segs[k]) \in {"account"}

\* /[A-Z0-9]{4,}/.test(lastSegment)
hasSkuRun(seg) == seg \in {"BED2041X", "SKU1", "2024"}

\* /^[a-z0-9][a-z0-9-]{14,}$/.test(lastSegment)
isLongSlug(seg) == seg \in {"ortho-memory-foam-mattress"}

scoreUrlByTypeMutAnyDepth(u) ==
  IF cartRule(u) THEN "cart"
  ELSE IF searchRule(u) THEN "search"
  ELSE IF utilityRule(u) THEN "other"
  ELSE IF Len(u.segs) = 0 THEN "home"
  ELSE IF Len(u.segs) >= 3 THEN "product"
  ELSE IF hasSkuRun(u.segs[Len(u.segs)]) \/ isLongSlug(u.segs[Len(u.segs)])
    THEN "product"
  ELSE "category"

scoreUrlByType(u) ==
  IF cartRule(u) THEN "cart"
  ELSE IF searchRule(u) THEN "search"
  ELSE IF utilityRule(u) THEN "other"
  ELSE IF Len(u.segs) = 0 THEN "home"
  ELSE IF Len(u.segs) >= 3 THEN "product"
  ELSE IF /\ Len(u.segs) >= 2
          /\ \/ hasSkuRun(u.segs[Len(u.segs)])
             \/ isLongSlug(u.segs[Len(u.segs)])
    THEN "product"
  ELSE "category"

\* DOM_SIGNATURES is scanned in key order; `sigs` are the page types one of
\* whose signature selectors matches; "none" for null
detectDomType(sigs) ==
  LET order == <<"product", "category", "cart", "search", "home">>
      hits  == SelectSeq(order, LAMBDA t : t \in sigs)
  IN IF hits = <<>> THEN "none" ELSE Head(hits)

classifyPageMutUrlFirst(jsonLdTypes, u, sigs) ==
  IF scoreUrlByType(u) # "other"
    THEN [type |-> scoreUrlByType(u), confidence |-> 70, method |-> "url"]
  ELSE IF Len(jsonLdTypes) > 0 /\ jsonLdTypeToPageType(jsonLdTypes) # "none"
    THEN [type |-> jsonLdTypeToPageType(jsonLdTypes), confidence |-> 95,
          method |-> "jsonld"]
  ELSE IF detectDomType(sigs) # "none"
    THEN [type |-> detectDomType(sigs), confidence |-> 55, method |-> "dom"]
  ELSE [type |-> "other", confidence |-> 0, method |-> "fallback"]

\* the JSON-LD @type values of the page, its parsed URL and the page types
\* whose DOM signature matches
classifyPage(jsonLdTypes, u, sigs) ==
  IF Len(jsonLdTypes) > 0 /\ jsonLdTypeToPageType(jsonLdTypes) # "none"
    THEN [type |-> jsonLdTypeToPageType(jsonLdTypes), confidence |-> 95,
          method |-> "jsonld"]
  ELSE IF scoreUrlByType(u) # "other"
    THEN [type |-> scoreUrlByType(u), confidence |-> 70, method |-> "url"]
  ELSE IF detectDomType(sigs) # "none"
    THEN [type |-> detectDomType(sigs), confidence |-> 55, method |-> "dom"]
  ELSE [type |-> "other", confidence |-> 0, method |-> "fallback"]

\* what a loaded page shows: its probe content and its JSON-LD @type values
Renders ==
  {[content |-> "blank", jsonLd |-> <<>>],
   [content |-> "plain", jsonLd |-> <<>>],
   [content |-> "rich",  jsonLd |-> <<"Product">>]}

\* a page whose navigation failed shows nothing
BlankRender == [content |-> "blank", jsonLd |-> <<>>]

\* -------------------------------------------------------- phase2DomExtract
\* log(url); const page = await ctx.newPage()
domOpen(j) ==
  /\ pc[j] = "dom"
  /\ cur[j] # <<>>
  /\ Log(j, <<"info">>)
  /\ newPage(j, "probe", "dom_nav")
  /\ UNCHANGED <<configs, apiKey, browser, closes, visionCalls, mainNav,
                 samples, vclass, registry, features, cur, ret, dom, navOk,
                 elements, saved>>
  /\ UNCHANGED benchVars

\* await navigateTo(page, url, log) inside the try of the visit
domNavigate(j) ==
  /\ pc[j] = "dom_nav"
  /\ \E o \in NavOutcomes :
       /\ Budget(j, Cost(o))
       /\ \/ /\ o = "ok"
             /\ navOk' = [navOk EXCEPT ![j] = TRUE]
             /\ Goto(j, "dom_probe")
             /\ UNCHANGED <<jobs, logs, pages, cur>>
          \/ /\ o = "failed"
             /\ Log(j, <<"navfail">>)
             /\ navOk' = [navOk EXCEPT ![j] = FALSE]
             /\ Goto(j, "dom_probe")
             /\ UNCHANGED <<pages, cur>>
          \/ /\ o = "rejected"
             /\ Log(j, <<"caught">>)
             /\ ClosePage(j, "probe")
             /\ cur' = [cur EXCEPT ![j] = Tail(@)]
             /\ Goto(j, "dom")
             /\ UNCHANGED navOk
  /\ UNCHANGED <<configs, apiKey, browser, closes, err, visionCalls, mainNav,
                 samples, vclass, registry, features, ret, dom, elements,
                 saved>>
  /\ UNCHANGED benchVars

\* if (!pageTypeRules[classification.type]) pageTypeRules[...] = rule
addRule(rules, c) ==
  IF c.type \in DOMAIN rules THEN rules
  ELSE [t \in DOMAIN rules \cup {c.type} |->
          IF t = c.type THEN [confidence |-> c.confidence, method |-> c.method]
          ELSE rules[t]]

\* rest of the try: dismissPopups, scroll, classifyPage, the probe loop,
\* allPageResults.push; catch logs; finally closes the page
domProbe(j) ==
  /\ pc[j] = "dom_probe"
  /\ LET pageType == Head(cur[j])[1]
         url      == Head(cur[j])[2]
     IN \/ /\ Log(j, <<"caught">>)
           /\ Budget(j, 1)
           /\ UNCHANGED dom
        \/ \E r \in (IF navOk[j] THEN Renders ELSE {BlankRender}) :
             /\ dom' = [dom EXCEPT
                          ![j].rules = addRule(@, classifyPage(r.jsonLd, parseUrl(url), {})),
                          ![j].results = Append(@, probePage(pageType, r.content))]
             /\ Log(j, <<"info">>)
             /\ Budget(j, 0)
  /\ ClosePage(j, "probe")
  /\ navOk' = [navOk EXCEPT ![j] = FALSE]
  /\ cur' = [cur EXCEPT ![j] = Tail(@)]
  /\ Goto(j, "dom")
  /\ UNCHANGED <<configs, apiKey, browser, closes, err, visionCalls, mainNav,
                 samples, vclass, registry, features, ret, elements, saved>>
  /\ UNCHANGED benchVars

\* scoreConsensus and return (allPageResults goes out of scope): into
\* Phase 4 (DOM-only Phase 3) or into the assembly of Phase 5
domEnd(j) ==
  /\ pc[j] = "dom"
  /\ cur[j] = <<>>
  /\ LET els == scoreConsensus(dom[j].results)
     IN /\ dom' = [dom EXCEPT ![j].results = <<>>]
        /\ IF ret[j] = "p3"
             THEN /\ features' = [features EXCEPT ![j] = convertElementsToFeatures(els)]
                  /\ phase4Start(j, convertElementsToFeatures(els), <<>>)
                  /\ UNCHANGED elements
             ELSE /\ elements' = [elements EXCEPT ![j] = els]
                  /\ Log(j, <<"coverage">>)
                  /\ Goto(j, "p5_save")
                  /\ UNCHANGED <<features, cur, err>>
  /\ UNCHANGED <<configs, apiKey, browser, closes, pages, visionCalls,
                 mainNav, samples, vclass, registry, ret, navOk, saved,
                 faults>>
  /\ UNCHANGED benchVars

\* ----------------------------------------------------- Phase 5: assembly
mergePageTypeRulesMutDomFirst(domRules, patternTypes, vcs) ==
  LET types == DOMAIN domRules \cup patternTypes \cup {"home"}
  IN [t \in types |->
        IF t \in DOMAIN domRules THEN domRules[t]
        ELSE IF t \in patternTypes THEN [confidence |-> 95, method |-> "registry"]
        ELSE [confidence |-> 95, method |-> "home"]]

mergePageTypeRules(domRules, patternTypes, vcs) ==
  LET types == DOMAIN domRules \cup patternTypes \cup {"home"}
      base  == [t \in types |->
                  IF t \in patternTypes THEN [confidence |-> 95, method |-> "registry"]
                  ELSE IF t \in DOMAIN domRules THEN domRules[t]
                  ELSE [confidence |-> 95, method |-> "home"]]
      boost(t) == {vc.confidence : vc \in {v \in vcs : v.pageType = t /\ v.confidence > 80}}
                    \cup {base[t].confidence}
  IN [t \in types |->
        [base[t] EXCEPT !.confidence = CHOOSE m \in boost(t) : \A x \in boost(t) : x <= m]]

\* the SiteConfig object of lines 661-691
siteConfig(j) ==
  [domain    |-> jobs[j].domain,
   crawledAt |-> j,
   pageTypes |-> mergePageTypeRules(dom[j].rules, registry[j].patternTypes, vclass[j]),
   elements  |-> elements[j],
   mainNav   |-> mainNav[j],
   features  |-> features[j],
   products  |-> registry[j].products,
   pagesVisited |-> dom[j].counts]

\* await saveSiteConfig(config)
p5Save(j) ==
  /\ pc[j] = "p5_save"
  /\ configs' = saveConfig(configs, jobs[j].domain, siteConfig(j))
  /\ saved' = [saved EXCEPT ![j] = @ + 1]
  /\ Goto(j, "p5_mark")
  /\ UNCHANGED <<jobs, logs, apiKey, browser, closes, pages, err, visionCalls,
                 mainNav, samples, vclass, registry, features, cur, ret, dom,
                 navOk, elements, faults>>
  /\ UNCHANGED benchVars

\* await updateJob(jobId, { status: 'done', completedAt, logs })
p5MarkDone(j) ==
  /\ pc[j] = "p5_mark"
  /\ jobs' = updateJob(jobs, j, [status |-> "done", completed |-> TRUE, logs |-> logs[j]])
  /\ Goto(j, "p5_tail")
  /\ UNCHANGED <<configs, logs, faults>> /\ UNCHANGED crawlVars
  /\ UNCHANGED benchVars

\* the summary lines logged after the job is marked done
p5Tail(j) ==
  /\ pc[j] = "p5_tail"
  /\ Log(j, <<"done", "info">>)
  /\ Goto(j, "finally")
  /\ UNCHANGED <<configs, faults>> /\ UNCHANGED crawlVars
  /\ UNCHANGED benchVars

\* catch (err): log the failure, mark the job failed with the message
catch(j) ==
  /\ pc[j] = "catch"
  /\ LogAnd(j, <<"fatal">>, [status |-> "failed", error |-> err[j], completed |-> TRUE])
  /\ Goto(j, "finally")
  /\ UNCHANGED <<configs, faults>> /\ UNCHANGED crawlVars
  /\ UNCHANGED benchVars

finallyMutSkipOnError(j) ==
  /\ pc[j] = "finally"
  /\ IF browser[j] = "open" /\ err[j] = NoError
       THEN /\ browser' = [browser EXCEPT ![j] = "closed"]
            /\ closes' = [closes EXCEPT ![j] = @ + 1]
            /\ pages' = [pages EXCEPT ![j] = {}]
       ELSE UNCHANGED <<browser, closes, pages>>
  /\ Goto(j, "end")
  /\ UNCHANGED <<jobs, configs, logs, apiKey, err, visionCalls, mainNav,
                 samples, vclass, registry, features, cur, ret, dom, navOk,
                 elements, saved, faults>>
  /\ UNCHANGED benchVars

\* finally { if (browser) await browser.close() }
finally(j) ==
  /\ pc[j] = "finally"
  /\ IF browser[j] = "open"
       THEN /\ browser' = [browser EXCEPT ![j] = "closed"]
            /\ closes' = [closes EXCEPT ![j] = @ + 1]
            /\ pages' = [pages EXCEPT ![j] = {}]
       ELSE UNCHANGED <<browser, closes, pages>>
  /\ Goto(j, "end")
  /\ UNCHANGED <<jobs, configs, logs, apiKey, err, visionCalls, mainNav,
                 samples, vclass, registry, features, cur, ret, dom, navOk,
                 elements, saved, faults>>
  /\ UNCHANGED benchVars

\* ------------------------------------------------------------------ system
Next ==
  \E j \in JobIds :
    \/ \E d \in Domains, key \in BOOLEAN : createJob(j, d, key)
    \/ crawlStart(j)
    \/ launchBrowser(j)
    \/ newContext(j)
    \/ p1OpenHome(j)
    \/ p1Home(j)
    \/ p1HomeVision(j)
    \/ p1Discover(j)
    \/ p1BucketOpen(j)
    \/ p1BucketVisit(j)
    \/ p1End(j)
    \/ p2SupOpen(j)
    \/ p2SupVisit(j)
    \/ p2CatOpen(j)
    \/ p2CatVisit(j)
    \/ p2ValidateOpen(j)
    \/ p2Validate(j)
    \/ p3FeatOpen(j)
    \/ p3FeatVisit(j)
    \/ p3VerifyOpen(j)
    \/ p3VerifyVisit(j)
    \/ p3End(j)
    \/ p4ValOpen(j)
    \/ p4ValVisit(j)
    \/ p4End(j)
    \/ domOpen(j)
    \/ domNavigate(j)
    \/ domProbe(j)
    \/ domEnd(j)
    \/ p5Save(j)
    \/ p5MarkDone(j)
    \/ p5Tail(j)
    \/ catch(j)
    \/ finally(j)

Spec == Init /\ [][Next]_vars

\* ================================================================ claims
\* what a reader of jobs.json finds as the status of job j
StatusOf(js, j) == IF js[j] = NoJob THEN "absent" ELSE js[j].status

\* positions of crawlWebsite after the SiteConfig was saved
AfterSave == {"p5_mark", "p5_tail", "finally", "end"}

\* positions of crawlWebsite once phase1Reconnaissance has returned
PastPhase1 ==
  {"p2_sup_open", "p2_sup_visit", "p2_cat", "p2_cat_visit", "p2_validate",
   "p3_feat", "p3_feat_visit", "p3_verify", "p3_verify_visit", "p4_val",
   "p4_val_visit", "dom", "dom_nav", "dom_probe", "p5_save"} \cup AfterSave

\* C1: the status of a job only moves absent -> pending -> running ->
\* done | failed; every step either keeps the status or takes one of these
\* moves, so a done or failed job never changes status again.
C1_StatusLifecycle ==
  [][\A j \in JobIds :
       \/ StatusOf(jobs', j) = StatusOf(jobs, j)
       \/ <<StatusOf(jobs, j), StatusOf(jobs', j)>> \in
            {<<"absent", "pending">>, <<"pending", "running">>,
             <<"running", "done">>, <<"running", "failed">>}]_vars

\* a crawl that was marked done went on (summary lines, browser close) to
\* its end
C1_Witness ==
  \E j \in JobIds : StatusOf(jobs, j) = "done" /\ pc[j] = "end" /\ closes[j] = 1

\* C2: once an error has reached the catch of crawlWebsite, the job is
\* failed, its error field holds the thrown message, and the stored log is
\* the crawl's whole log, lines in their order of writing (line i carries
\* ordinal i, the first line is the start line), ending with the failure.
C2_FailedKeepsLogs ==
  \A j \in JobIds :
    (err[j] # NoError /\ pc[j] \in {"finally", "end"}) =>
      /\ jobs[j].status = "failed"
      /\ jobs[j].error = err[j]
      /\ jobs[j].logs = logs[j]
      /\ \A i \in 1..Len(jobs[j].logs) : jobs[j].logs[i].n = i
      /\ jobs[j].logs[1].tag = "start"
      /\ jobs[j].logs[Len(jobs[j].logs)].tag = "fatal"

\* a crawl that threw during Phase 2 or later, with the lines of Phase 1 in
\* its log, has run its catch
C2_Witness ==
  \E j \in JobIds :
    /\ err[j] = "newPage failed" /\ pc[j] = "finally"
    /\ \E i \in 1..Len(logs[j]) : logs[j][i].tag = "phase2"

\* C3: whenever a crawl stands between two page visits, at the end of a
\* phase or in its catch, no page it opened is still open.
C3_NoPageLeftOpen ==
  \A j \in JobIds :
    pc[j] \in {"catch", "p1_bucket", "p2_sup_open", "p2_cat", "p3_feat",
               "p4_val", "dom", "p5_save", "p5_mark", "p5_tail"}
      => pages[j] = {}

\* C4: browser.close() runs at most once, only as the last step of the
\* crawl, and exactly once if the browser was launched; a crawl whose launch
\* failed never closes anything.
C4_BrowserClosedOnce ==
  \A j \in JobIds :
    /\ closes[j] <= 1
    /\ (closes[j] = 1 \/ browser[j] = "closed") => pc[j] = "end"
    /\ pc[j] = "end" =>
         \/ browser[j] = "closed" /\ closes[j] = 1
         \/ browser[j] = "null" /\ closes[j] = 0 /\ err[j] = "launch failed"

\* a crawl that threw with the browser open has closed it
C4_Witness ==
  \E j \in JobIds :
    pc[j] = "end" /\ err[j] \notin {NoError, "launch failed"} /\ closes[j] = 1

\* positions of crawlWebsite inside code that talks to the vision service
VisionPcs ==
  {"p1_vlm", "p1_bucket_visit", "p3_feat", "p3_feat_visit", "p3_verify",
   "p3_verify_visit"}

\* C5 as stated: a crawl without a vision key never calls the vision
\* service and, even when the environment never deviates, ends done with a
\* non-empty elements map.
C5_KeylessDoneNonEmpty ==
  \A j \in JobIds :
    (jobs[j] # NoJob /\ ~apiKey[j] /\ pc[j] = "end" /\ faults[j] = 0) =>
      /\ visionCalls[j] = 0
      /\ jobs[j].status = "done"
      /\ DOMAIN elements[j] # {}

\* C5 amended: a crawl without a vision key never calls the vision service
\* nor enters the vision-driven code of Phases 1 and 3; its features are
\* those converted from the DOM consensus; if nothing was thrown it ends
\* done and the stored elements map is the DOM consensus, each entry backed
\* by a selector and a sample, possibly with no entry at all.
C5_KeylessDomOnly ==
  \A j \in JobIds :
    (jobs[j] # NoJob /\ ~apiKey[j]) =>
      /\ visionCalls[j] = 0
      /\ pc[j] \notin VisionPcs
      /\ \A t \in DOMAIN features[j] :
           \A k \in 1..Len(features[j][t]) :
             features[j][t][k].id \in DOMAIN featureTypeMap
      /\ (pc[j] = "end" /\ err[j] = NoError) =>
           /\ jobs[j].status = "done"
           /\ configs[jobs[j].domain].elements = elements[j]
           /\ \A i \in DOMAIN elements[j] :
                elements[j][i].selectors # <<>> /\ elements[j][i].sampleCount >= 1

\* a fault-free crawl without a key that ended done with an empty elements
\* map
C5_Witness ==
  \E j \in JobIds :
    /\ jobs[j] # NoJob /\ ~apiKey[j] /\ pc[j] = "end" /\ faults[j] = 0
    /\ jobs[j].status = "done" /\ DOMAIN elements[j] = {}

\* C6: a DOM-probing visit whose navigation failed on every attempt adds no
\* classification rule and no probe results.
C6_FailedPageSkipped ==
  [][\A j \in JobIds :
       (pc[j] = "dom_probe" /\ ~navOk[j]) =>
         /\ dom'[j].rules = dom[j].rules
         /\ dom'[j].results = dom[j].results]_vars

\* C7: whatever the vision service replies, the only errors that reach the
\* catch of crawlWebsite are those of the browser driver.
C7_VisionNeverFailsJob ==
  \A j \in JobIds :
    err[j] \in {NoError, "launch failed", "context failed", "newPage failed",
                "page crashed"}

\* C8 as stated: once a phase has completed, and once the finalizer has
\* run, the config store holds this crawl's SiteConfig.
C8_ConfigAfterEachPhase ==
  \A j \in JobIds :
    pc[j] \in PastPhase1 \ {"finally"} =>
      LET c == configs[jobs[j].domain]
      IN IF c = NoConfig THEN FALSE ELSE c.crawledAt = j

\* C8 amended: the stored logs equal the crawl's log at every suspension
\* point; the stored status is pending before crawlWebsite starts, running
\* from its start until it is written done after the save or failed in the
\* catch; the SiteConfig is saved exactly when Phase 5 has completed, and
\* the finalizer changes none of it.
C8_PersistencePoints ==
  \A j \in JobIds :
    jobs[j] # NoJob =>
      LET ended  == pc[j] \in {"finally", "end"}
          stored == pc[j] \in {"p5_mark", "p5_tail"} \/ (ended /\ err[j] = NoError)
      IN /\ jobs[j].logs = logs[j]
         /\ jobs[j].status =
              (CASE pc[j] = "start"                  -> "pending"
                 [] pc[j] = "p5_tail"                -> "done"
                 [] ended /\ err[j] = NoError        -> "done"
                 [] ended /\ err[j] # NoError        -> "failed"
                 [] OTHER                            -> "running")
         /\ saved[j] = (IF stored THEN 1 ELSE 0)
         /\ IF stored
              THEN configs[jobs[j].domain] # NoConfig
                     /\ configs[jobs[j].domain].crawledAt = j
              ELSE configs = InitialConfigs

\* a crawl that completed Phase 1, failed later and ran its finalizer,
\* with nothing saved
C8_Witness ==
  \E j \in JobIds :
    /\ pc[j] = "end" /\ err[j] # NoError /\ saved[j] = 0
    /\ "home" \in DOMAIN samples[j]
    /\ configs = InitialConfigs

\* C9: every write of a job's stored logs extends what was stored before,
\* and what is stored is a prefix of the crawl's own log array.
C9_LogsOnlyGrow ==
  [][\A j \in JobIds :
       (jobs[j] # NoJob /\ jobs'[j] # NoJob) =>
         /\ IsPrefix(jobs[j].logs, jobs'[j].logs)
         /\ IsPrefix(jobs'[j].logs, logs'[j])]_vars

\* a job whose stored log has grown through Phase 1 into Phase 2
C9_Witness ==
  \E j \in JobIds :
    /\ jobs[j] # NoJob /\ Len(jobs[j].logs) >= 6
    /\ \E i \in 1..Len(jobs[j].logs) : jobs[j].logs[i].tag = "phase2"
    /\ IsPrefix(jobs[j].logs, logs[j])

Uploads ==
  {[crawledAt |-> "manual"],
   [domain |-> "typo.example", crawledAt |-> "manual", pageTypes |-> EmptyFn,
    elements |-> EmptyFn]}

\* { ...body, domain }
withDomain(body, d) ==
  [f \in DOMAIN body \cup {"domain"} |-> IF f = "domain" THEN d ELSE body[f]]

\* router.put('/:domain'): 400 without a body.domain, else the body is
\* saved under the path's domain as it came
putConfig(d, body) ==
  /\ configs' = IF "domain" \in DOMAIN body
                  THEN saveConfig(configs, d, withDomain(body, d))
                  ELSE configs
  /\ UNCHANGED <<jobs, pc, logs, faults>> /\ UNCHANGED crawlVars
  /\ UNCHANGED benchVars

NextAdmin ==
  \/ Next
  \/ \E d \in Domains, body \in Uploads : putConfig(d, body)

\* crawls and the admin route working on the same config store
SpecAdmin == Init /\ [][NextAdmin]_vars

\* C11: every SiteConfig in the config store has a page-type rule set that
\* holds a rule for the home page.
C11_HomeRuleAlways ==
  \A d \in Domains :
    configs[d] # NoConfig =>
      /\ "pageTypes" \in DOMAIN configs[d]
      /\ "home" \in DOMAIN configs[d].pageTypes

\* ============================================== URL patterns of the registry
\* A pathname is the sequence of its segments: /c1/p/SKU1 is
\* <<"c1", "p", "SKU1">>.  A string handed to RegExp.test is an optional
\* "https:" followed by "/" + segment for each segment, so that
\* https://shop.example/cart is scheme + <<"", "shop.example", "cart">>.
MaxPaths == 3      \* URLs in a product or category list

ProductPaths ==
  {<<"c1", "p", "SKU1">>, <<"c1", "p", "SKU2">>, <<"c1", "x">>,
   <<"v1.2", "x">>, <<"v1", "y", "z">>}

CategoryPaths ==
  {<<"c1">>, <<"c2">>, <<"c3">>, <<"sale", "c1">>, <<"sale", "c2">>}

SeqsUpTo(S, n) == UNION {[1..k -> S] : k \in 0..n}

pathText(path) == [scheme |-> FALSE, segs |-> path]

\* `${origin}` followed by the path
originText(path) == [scheme |-> TRUE, segs |-> <<"", "shop.example">> \o path]

\* /^[A-Z0-9]{4,}$/.test(seg)
IsSku(seg) == seg \in {"SKU1", "SKU2", "SKU3", "SKU4"}

\* seg.startsWith(lit), over the segments in use
StartsWith(seg, lit) ==
  seg = lit \/ <<lit, seg>> \in {<<"search", "search-result">>, <<"v1", "v1.2">>}

\* the part of escapeRegex(seg) before its first backslash, which is what
\* pat.match(/\\\/([^\\]+)/)[1] captures
firstCapture(seg) == IF seg = "v1.2" THEN "v1" ELSE seg

\* pieces of a pattern, each standing after a `\/`
Lit(x) == [kind |-> "lit", lit |-> x, alt |-> {}]
Alt(S) == [kind |-> "alt", lit |-> "", alt |-> S]
AnySeg == [kind |-> "any", lit |-> "", alt |-> {}]
SkuSeg == [kind |-> "sku", lit |-> "", alt |-> {}]

\* the piece must cover the whole segment (a `\/` or the end follows it)
matchWhole(part, seg) ==
  CASE part.kind = "lit" -> seg = part.lit
    [] part.kind = "alt" -> seg \in part.alt
    [] part.kind = "any" -> seg # ""
    [] OTHER             -> IsSku(seg)

\* the piece ends the pattern: anything may follow inside the segment
matchStart(part, seg) ==
  CASE part.kind = "lit" -> StartsWith(seg, part.lit)
    [] part.kind = "alt" -> \E x \in part.alt : StartsWith(seg, x)
    [] part.kind = "any" -> seg # ""
    [] OTHER             -> IsSku(seg)

\* new RegExp(pattern).test(text) for the patterns the registry writes:
\* an optional ^, `\/`-led pieces, and a tail that is empty, `\/?`, or `\/?$`
regexTest(pat, text) ==
  LET n    == Len(pat.parts)
      segs == text.segs
      ends(k) == k > Len(segs) \/ (k = Len(segs) /\ segs[k] = "")
      at(k) ==
        /\ k + n - 1 <= Len(segs)
        /\ \A i \in 1..(n - 1) : matchWhole(pat.parts[i], segs[k + i - 1])
        /\ IF pat.tail = "slashEnd"
             THEN matchWhole(pat.parts[n], segs[k + n - 1]) /\ ends(k + n)
             ELSE matchStart(pat.parts[n], segs[k + n - 1])
  IN IF pat.anchored
       THEN /\ ~text.scheme
            /\ IF n = 0 THEN ends(1) ELSE at(1)
       ELSE \E k \in 1..Len(segs) : at(k)

\* Map insertion order of the group signatures `${depth}:${first}`
sigOf(path) == <<Len(path), path[1]>>

RECURSIVE sigOrder(_, _)
sigOrder(paths, seen) ==
  IF paths = <<>> THEN <<>>
  ELSE IF Len(Head(paths)) = 0 \/ sigOf(Head(paths)) \in seen
         THEN sigOrder(Tail(paths), seen)
         ELSE <<sigOf(Head(paths))>> \o sigOrder(Tail(paths), seen \cup {sigOf(Head(paths))})

clusterPartMutNoSku(members, i) ==
  LET vals == {members[m][i] : m \in 1..Len(members)}
  IN IF Cardinality(vals) = 1 THEN Lit(CHOOSE v \in vals : TRUE)
     ELSE AnySeg

\* one position of a cluster's pattern
clusterPart(members, i) ==
  LET vals == {members[m][i] : m \in 1..Len(members)}
  IN IF Cardinality(vals) = 1 THEN Lit(CHOOSE v \in vals : TRUE)
     ELSE IF \A v \in vals : IsSku(v) THEN SkuSeg
     ELSE AnySeg

\* the singleton fallback: `\/first` + `\/[^/]+` per further segment
genericPattern(path) ==
  [anchored |-> FALSE, tail |-> "open",
   parts |-> [i \in 1..Len(path) |-> IF i = 1 THEN Lit(path[1]) ELSE AnySeg]]

clusterPaths(paths) ==
  LET sigs     == sigOrder(paths, {})
      group(g) == SelectSeq(paths, LAMBDA q : Len(q) > 0 /\ sigOf(q) = g)
      big      == SelectSeq(sigs, LAMBDA g : Len(group(g)) >= 2)
      clusters == [c \in 1..Len(big) |->
                     [pattern  |-> [anchored |-> FALSE, tail |-> "open",
                                    parts |-> [i \in 1..big[c][1] |->
                                                 clusterPart(group(big[c]), i)]],
                      examples |-> Take(group(big[c]), 5)]]
      long     == SelectSeq(paths, LAMBDA q : Len(q) >= 2)
      generic  == Dedup([k \in 1..Len(long) |-> genericPattern(long[k])], {})
  IN IF Len(clusters) = 0 /\ Len(paths) > 0
       THEN [c \in 1..Len(generic) |->
               [pattern  |-> generic[c],
                examples |-> Take(SelectSeq(paths, LAMBDA q :
                                   Len(q) > 0 /\ q[1] = firstCapture(generic[c].parts[1].lit)), 3)]]
       ELSE clusters

\* examples as the strings regexTest receives
asTexts(paths) == [k \in 1..Len(paths) |-> pathText(paths[k])]

typed(pageType, clusters, n) ==
  [c \in 1..Len(clusters) |->
     [pageType |-> pageType, pattern |-> clusters[c].pattern,
      examples |-> asTexts(Take(clusters[c].examples, n))]]

\* deriveUrlPatterns with the patterns and examples it emits
validatedPatterns(products, categories) ==
  LET single == SelectSeq(categories, LAMBDA q : Len(q) = 1)
      multi  == SelectSeq(categories, LAMBDA q : Len(q) > 1)
  IN <<[pageType |-> "home",
        pattern  |-> [anchored |-> TRUE, parts |-> <<>>, tail |-> "slashEnd"],
        examples |-> <<originText(<<>>)>>]>>
     \o (IF Len(products) > 0 THEN typed("product", clusterPaths(products), 3) ELSE <<>>)
     \o (IF Len(single) >= 3
           THEN <<[pageType |-> "category",
                   pattern  |-> [anchored |-> TRUE, tail |-> "slashEnd",
                                 parts |-> <<Alt({single[k][1] : k \in 1..Len(single)})>>],
                   examples |-> asTexts(Take(single, 5))]>>
           ELSE <<>>)
     \o (IF Len(categories) > 0 THEN typed("category", clusterPaths(multi), 3) ELSE <<>>)
     \o <<[pageType |-> "cart",
           pattern  |-> [anchored |-> TRUE, parts |-> <<Lit("cart")>>, tail |-> "optSlash"],
           examples |-> <<originText(<<"cart">>)>>],
          [pageType |-> "search",
           pattern  |-> [anchored |-> TRUE, parts |-> <<Lit("search")>>, tail |-> "open"],
           examples |-> <<originText(<<"search-result">>)>>]>>

\* buildUrlRegistry hands its product and category lists to deriveUrlPatterns
InitPatterns ==
  /\ InitCrawl
  /\ fnOut = NoCall
  /\ assoc = AssocInitial
  /\ \E ps \in SeqsUpTo(ProductPaths, MaxPaths), cs \in SeqsUpTo(CategoryPaths, MaxPaths) :
       fnArg = [called |-> TRUE, products |-> ps, categories |-> cs]

callDeriveUrlPatterns ==
  /\ ~fnOut.called
  /\ fnOut' = [called |-> TRUE,
               value |-> validatedPatterns(fnArg.products, fnArg.categories)]
  /\ UNCHANGED <<jobs, configs, pc, logs, faults, fnArg, assoc>>
  /\ UNCHANGED crawlVars

NextPatterns == callDeriveUrlPatterns

SpecPatterns == InitPatterns /\ [][NextPatterns]_vars

\* C12: every pattern deriveUrlPatterns emits matches each of its own
\* examples when compiled and tested against the example string.
C12_PatternsMatchExamples ==
  fnOut.called =>
    \A k \in 1..Len(fnOut.value) :
      \A e \in 1..Len(fnOut.value[k].examples) :
        regexTest(fnOut.value[k].pattern, fnOut.value[k].examples[e])

\* ============================================ product list of the registry
MaxLinks  == 2      \* product links on one listing page
MaxVisits == 2      \* category pages visited in one registry build

MAX_PRODUCTS_PER_CATEGORY == 200
MAX_PAGES                 == 5

\* values of the maxProductsPerCategory option: a tight cap and the default
Caps == {1, MAX_PRODUCTS_PER_CATEGORY}

\* anchors of a listing: a pathname and what follows it (query, fragment)
Hrefs ==
  [path : {"/c1/p/SKU1", "/c1/p/SKU2"}, rest : {"", "?ref=nav"}]
    \cup {[path |-> "/c1/x", rest |-> "#reviews"]}

\* u.origin + u.pathname
cleanUrl(h) == [path |-> h.path, rest |-> ""]

\* extractProductUrls: one cleaned URL per card, first occurrence kept
extractProductUrls(listing) ==
  Dedup([k \in 1..Len(listing) |-> cleanUrl(listing[k])], {})

RECURSIVE pushNew(_, _, _, _)
\* the push loop: skip URLs in seenProductUrls, stop once `added` reaches
\* the cap; yields the registry state, the number added and whether the
\* loop stopped on the cap
pushNew(st, found, added, cap) ==
  IF found = <<>> THEN [st EXCEPT !.added = added, !.cut = FALSE]
  ELSE IF Head(found) \in st.seen THEN pushNew(st, Tail(found), added, cap)
  ELSE IF added >= cap THEN [st EXCEPT !.added = added, !.cut = TRUE]
  ELSE pushNew([st EXCEPT !.seen = @ \cup {Head(found)},
                          !.products = Append(@, Head(found))],
               Tail(found), added + 1, cap)

pushNewMutNoSeen(st, found, added, cap) ==
  [st EXCEPT !.products = @ \o found, !.added = Len(found), !.cut = FALSE,
             !.seen = @ \cup Range(found)]

\* the loop of buildUrlRegistry (capped) and of crawlPaginatedProducts
\* (its cap is on the loop condition, not in the loop)
pushProducts(st, found, added, cap) == pushNew(st, found, added, cap)

\* buildUrlRegistry starts: nothing collected
InitRegistry ==
  /\ InitCrawl
  /\ assoc = AssocInitial
  /\ \E cap \in Caps :
       fnArg = [called |-> TRUE, cap |-> cap, listing |-> <<>>, visits |-> 0,
                pages |-> 0, inCategory |-> FALSE]
  /\ fnOut = [called |-> FALSE, products |-> <<>>, seen |-> {}, added |-> 0,
              cut |-> FALSE, repeat |-> FALSE, prevCut |-> FALSE]

\* a category page is loaded and its product links are extracted
visitCategory(listing) ==
  /\ fnArg.visits < MaxVisits
  /\ fnArg' = [fnArg EXCEPT !.listing = listing, !.visits = @ + 1, !.pages = 0,
                            !.inCategory = TRUE]
  /\ fnOut' = [pushProducts(fnOut, extractProductUrls(listing), 0, fnArg.cap)
                 EXCEPT !.called = TRUE,
                        !.repeat = fnOut.called /\ listing = fnArg.listing,
                        !.prevCut = fnOut.cut]
  /\ UNCHANGED <<jobs, configs, pc, logs, faults, assoc>>
  /\ UNCHANGED crawlVars

loadMoreMutNoStop(listing) ==
  /\ fnArg.inCategory
  /\ fnArg.pages < MAX_PAGES
  /\ Len(fnOut.products) < fnArg.cap
  /\ fnArg' = [fnArg EXCEPT !.listing = listing, !.pages = @ + 1]
  /\ fnOut' = [pushProducts(fnOut, extractProductUrls(listing), 0,
                            Len(listing) + 1)
                 EXCEPT !.repeat = listing = fnArg.listing,
                        !.prevCut = fnOut.cut]
  /\ UNCHANGED <<jobs, configs, pc, logs, faults, assoc>>
  /\ UNCHANGED crawlVars

\* crawlPaginatedProducts: one more page-load of the category in progress
loadMore(listing) ==
  /\ fnArg.inCategory
  /\ fnArg.pages < MAX_PAGES
  /\ Len(fnOut.products) < fnArg.cap
  /\ fnArg.pages > 0 => fnOut.added # 0
  /\ fnArg' = [fnArg EXCEPT !.listing = listing, !.pages = @ + 1]
  /\ fnOut' = [pushProducts(fnOut, extractProductUrls(listing), 0,
                            Len(listing) + 1)
                 EXCEPT !.repeat = listing = fnArg.listing,
                        !.prevCut = fnOut.cut]
  /\ UNCHANGED <<jobs, configs, pc, logs, faults, assoc>>
  /\ UNCHANGED crawlVars

NextRegistry ==
  \E listing \in SeqsUpTo(Hrefs, MaxLinks) :
    \/ visitCategory(listing)
    \/ loadMore(listing)

SpecRegistry == InitRegistry /\ [][NextRegistry]_vars

NoDuplicates(seq) == \A a, b \in 1..Len(seq) : seq[a] = seq[b] => a = b

MaxSamples == 3     \* page samples handed to scoreConsensus

CONFIDENCE_THRESHOLD == 50

\* selectors probed for the intent `price`, in probing order
PriceCandidates ==
  <<"[data-testid=price]", ".pdp-price", "#price", "[itemprop=price]",
    ".priceBox", "span">>

\* a selector not probed before
FreshSelectors == {".css-1q2w3e4r5t6y"}

\* ProbeResult[] of one page: candidates in `verified` pass the content
\* check, the others match only when `matched` is set
probesFor(verified, matched) ==
  [k \in 1..Len(PriceCandidates) |->
     [selector |-> PriceCandidates[k],
      matched  |-> matched \/ PriceCandidates[k] \in verified,
      verified |-> PriceCandidates[k] \in verified]]

\* PageProbeResults of one sample: no key for the intent, no element
\* found, the first k candidates verified, only the last one verified, or
\* the first candidate recorded twice
ProbePages ==
  {EmptyFn}
    \cup {[price |-> probesFor({}, FALSE)]}
    \cup {[price |-> probesFor(Range(Take(PriceCandidates, k)), TRUE)] :
            k \in 0..Len(PriceCandidates)}
    \cup {[price |-> probesFor({PriceCandidates[Len(PriceCandidates)]}, TRUE)]}
    \cup {[price |-> Take(probesFor({PriceCandidates[1]}, FALSE), 1)
                       \o Take(probesFor({PriceCandidates[1]}, FALSE), 1)]}

covered(els, keys) ==
  Cardinality({k \in 1..Len(keys) :
     /\ keys[k] \in DOMAIN els
     /\ els[keys[k]].confidence >= CONFIDENCE_THRESHOLD})

calculateCoverage(els) ==
  LET pdpCovered    == covered(els, TAXONOMY_GROUPS.pdp)
      plpCovered    == covered(els, TAXONOMY_GROUPS.plp)
      globalCovered == covered(els, TAXONOMY_GROUPS.global)
      totalCovered  == pdpCovered + plpCovered + globalCovered
      total         == Len(TAXONOMY_GROUPS.pdp) + Len(TAXONOMY_GROUPS.plp)
                         + Len(TAXONOMY_GROUPS.global)
      allIntents    == TAXONOMY_GROUPS.pdp \o TAXONOMY_GROUPS.plp
                         \o TAXONOMY_GROUPS.global \o TAXONOMY_GROUPS.cart
  IN [pdpIntentsCovered    |-> pdpCovered,
      pdpIntentsTotal      |-> Len(TAXONOMY_GROUPS.pdp),
      plpIntentsCovered    |-> plpCovered,
      plpIntentsTotal      |-> Len(TAXONOMY_GROUPS.plp),
      globalIntentsCovered |-> globalCovered,
      globalIntentsTotal   |-> Len(TAXONOMY_GROUPS.global),
      uncovered            |-> SelectSeq(allIntents, LAMBDA k :
                                 \/ k \notin DOMAIN els
                                 \/ els[k].confidence < CONFIDENCE_THRESHOLD),
      overallPct           |-> IF total > 0
                                 THEN (2 * totalCovered * 100 + total) \div (2 * total)
                                 ELSE 0]

\* the samples with a verified probe of `sel` added on the first k pages
withSelector(all, sel, k) ==
  [p \in 1..Len(all) |->
     IF p <= k
       THEN [price |-> (IF "price" \in DOMAIN all[p] THEN all[p].price ELSE <<>>)
                         \o <<[selector |-> sel, matched |-> TRUE,
                               verified |-> TRUE]>>]
       ELSE all[p]]

InitConsensus ==
  /\ InitCrawl
  /\ assoc = AssocInitial
  /\ fnOut = NoCall
  /\ \E all \in SeqsUpTo(ProbePages, MaxSamples) :
       fnArg = [called |-> TRUE, all |-> all]

callScoreConsensus ==
  /\ ~fnOut.called
  /\ LET out == scoreConsensus(fnArg.all)
     IN fnOut' = [called |-> TRUE, elements |-> out,
                  coverage |-> calculateCoverage(out), added |-> FALSE]
  /\ UNCHANGED <<jobs, configs, pc, logs, faults, fnArg, assoc>>
  /\ UNCHANGED crawlVars

\* the same samples scored again after one more selector was probed and
\* verified on the first k pages
callWithSelector(sel, k) ==
  /\ fnOut.called /\ ~fnOut.added
  /\ k <= Len(fnArg.all)
  /\ \E all \in {withSelector(fnArg.all, sel, k)} :
       /\ fnArg' = [fnArg EXCEPT !.all = all]
       /\ \E out \in {scoreConsensus(all)} :
            fnOut' = [called |-> TRUE, elements |-> out,
                      coverage |-> calculateCoverage(out), added |-> TRUE,
                      before |-> fnOut.coverage]
  /\ UNCHANGED <<jobs, configs, pc, logs, faults, assoc>>
  /\ UNCHANGED crawlVars

NextConsensus ==
  \/ callScoreConsensus
  \/ \E sel \in FreshSelectors, k \in 1..MaxSamples :
       callWithSelector(sel, k)

SpecConsensus == InitConsensus /\ [][NextConsensus]_vars

\* C14: every SelectorEntry emitted by scoreConsensus has a confidence
\* between 0 and 100.
C14_ConfidenceInRange ==
  fnOut.called =>
    \A i \in DOMAIN fnOut.elements :
      /\ fnOut.elements[i].confidence >= 0
      /\ fnOut.elements[i].confidence <= 100

\* one sample on which the best selector was recorded as verified twice:
\* the rounded product is 200 and the entry carries 100
C14_Witness ==
  /\ fnOut.called /\ ~fnOut.added
  /\ Len(fnArg.all) = 1
  /\ "price" \in DOMAIN fnOut.elements
  /\ contentCount(fnArg.all, "price", fnOut.elements.price.selectors[1]) = 2
  /\ fnOut.elements.price.confidence = 100

\* selectors recorded for `intent` on any sample
probed(all, intent) ==
  {probesOf(all, intent)[k].selector : k \in 1..Len(probesOf(all, intent))}

chainOf(out, intent) ==
  IF intent \in DOMAIN out THEN Range(out[intent].selectors) ELSE {}

\* C15: every emitted SelectorEntry has between 1 and 5 selectors, and an
\* intent none of whose selectors reaches the content threshold has no
\* entry in the output.
C15_ChainLength ==
  fnOut.called =>
    /\ \A i \in DOMAIN fnOut.elements :
         /\ Len(fnOut.elements[i].selectors) >= 1
         /\ Len(fnOut.elements[i].selectors) <= MAX_FALLBACKS
         /\ NoDuplicates(fnOut.elements[i].selectors)
    /\ \A i \in Intents :
         (\A sel \in probed(fnArg.all, i) :
            contentCount(fnArg.all, i, sel) * 100
              < CONTENT_THRESHOLD_PCT * Len(fnArg.all))
           => i \notin DOMAIN fnOut.elements

\* six selectors passed the filter on a single sample and five were kept
C15_Witness ==
  /\ fnOut.called /\ ~fnOut.added
  /\ Len(fnArg.all) = 1
  /\ \A sel \in Range(PriceCandidates) : qualifies(fnArg.all, "price", sel)
  /\ "price" \in DOMAIN fnOut.elements
  /\ Len(fnOut.elements.price.selectors) = MAX_FALLBACKS

\* percentage of the pdp group, the group of `price`
pdpPct(report) ==
  (report.pdpIntentsCovered * 100) \div report.pdpIntentsTotal

\* C16: scoring the samples again after a selector that was not probed
\* before is added as content-verified, all other probe results unchanged,
\* never lowers the coverage percentage of the intent's group.
C16_CoverageMonotone ==
  (fnOut.called /\ fnOut.added) =>
    pdpPct(fnOut.coverage) >= pdpPct(fnOut.before)

\* C20: a selector is dropped exactly when its verified-sample ratio is
\* below 1/3; every selector at or above 1/3 is kept when at most five
\* reach it; a selector verified on no sample is never kept.
C20_ThirdThreshold ==
  (fnOut.called /\ Len(fnArg.all) > 0) =>
    LET all  == fnArg.all
        n    == Len(all)
        kept == chainOf(fnOut.elements, "price")
        pass == {sel \in probed(all, "price") :
                   3 * contentCount(all, "price", sel) >= n}
    IN /\ \A sel \in probed(all, "price") \ pass : sel \notin kept
       /\ Cardinality(pass) <= MAX_FALLBACKS => pass \subseteq kept
       /\ \A sel \in probed(all, "price") :
            contentCount(all, "price", sel) = 0 => sel \notin kept

\* ======================================================= associate store
MaxCoord == 2       \* cursor coordinates 0..MaxCoord

AssociateStates == {"idle", "listening", "thinking", "navigating", "highlighting"}
Queries         == {"", "sofa", "king size bed"}

activatePatch   == [isActive |-> TRUE, state |-> "listening"]

deactivatePatchMutKeepQuery == [isActive |-> FALSE, state |-> "idle"]

deactivatePatch == [isActive |-> FALSE, state |-> "idle", currentQuery |-> ""]

\* zustand set(partial): a shallow merge into the store; the call and the
\* store it found are kept in fnArg
storeSet(op, partial) ==
  /\ assoc' = MergeRec(assoc, partial)
  /\ fnArg' = [called |-> TRUE, op |-> op, before |-> assoc]
  /\ UNCHANGED <<jobs, configs, pc, logs, faults, fnOut>>
  /\ UNCHANGED crawlVars

activate   == storeSet("activate", activatePatch)

deactivate == storeSet("deactivate", deactivatePatch)

setState(state) == storeSet("setState", [state |-> state])

setQuery(query) == storeSet("setQuery", [currentQuery |-> query])

setCursorPosition(x, y) ==
  storeSet("setCursorPosition", [cursorPosition |-> [x |-> x, y |-> y]])

NextAssociate ==
  \/ activate
  \/ deactivate
  \/ \E state \in AssociateStates : setState(state)
  \/ \E query \in Queries : setQuery(query)
  \/ \E x, y \in 0..MaxCoord : setCursorPosition(x, y)

SpecAssociate == Init /\ [][NextAssociate]_vars

\* C17: after activate() the store has isActive true and state
\* 'listening'; after deactivate() it has isActive false, state 'idle' and
\* an empty currentQuery, whatever the store held before; neither touches
\* any other field.
C17_ActivateDeactivate ==
  fnArg.called =>
    /\ fnArg.op = "activate" =>
         /\ assoc.isActive /\ assoc.state = "listening"
         /\ assoc.currentQuery = fnArg.before.currentQuery
         /\ assoc.cursorPosition = fnArg.before.cursorPosition
    /\ fnArg.op = "deactivate" =>
         /\ ~assoc.isActive /\ assoc.state = "idle" /\ assoc.currentQuery = ""
         /\ assoc.cursorPosition = fnArg.before.cursorPosition

\* deactivate() found an active store that was thinking about a query
C17_Witness ==
  /\ fnArg.called /\ fnArg.op = "deactivate"
  /\ fnArg.before.isActive /\ fnArg.before.state = "thinking"
  /\ fnArg.before.currentQuery = "sofa"
  /\ assoc.currentQuery = "" /\ assoc.state = "idle" /\ ~assoc.isActive

\* ======================================================= page classifier
MaxDepth == 3       \* path segments of a classified URL

PathSegments ==
  {"cart", "search", "account", "sofas", "2024", "BED2041X",
   "ortho-memory-foam-mattress"}

SearchStrings == {"", "?q=sofa"}

LdTypes == {"Product", "ItemList", "Order", "WebSite", "BreadcrumbList"}

\* extractJsonLdTypes: no annotation, one, or two
LdTypeLists ==
  {<<>>} \cup {<<t>> : t \in LdTypes} \cup {<<a, b>> : a, b \in LdTypes}

\* page types with a matching DOM signature
DomSignatures == {{}, {"cart"}, {"category", "home"}}

InitClassifier ==
  /\ InitCrawl
  /\ assoc = AssocInitial
  /\ fnOut = NoCall
  /\ \E types \in LdTypeLists, segs \in SeqsUpTo(PathSegments, MaxDepth),
        search \in SearchStrings, sigs \in DomSignatures :
       fnArg = [called |-> TRUE, types |-> types,
                url |-> [segs |-> segs, search |-> search], sigs |-> sigs]

callClassifyPage ==
  /\ ~fnOut.called
  /\ fnOut' = [called |-> TRUE,
               value  |-> classifyPage(fnArg.types, fnArg.url, fnArg.sigs)]
  /\ UNCHANGED <<jobs, configs, pc, logs, faults, fnArg, assoc>>
  /\ UNCHANGED crawlVars

NextClassifier == callClassifyPage

SpecClassifier == InitClassifier /\ [][NextClassifier]_vars

\* the tiers, each read off the call's arguments
ldYield  == \E k \in 1..Len(fnArg.types) :
              fnArg.types[k] \in {"Product", "ItemList", "Order", "WebSite"}
urlYield == scoreUrlByType(fnArg.url) # "other"
domYield == fnArg.sigs # {}

\* C18: classifyPage answers with the first tier that yields a page type:
\* structured data (95), then the URL heuristic (70), then the DOM
\* signature (55), else 'other' with 0; a page whose structured data
\* includes Product is a product with confidence 95 whatever its URL and
\* DOM.
C18_Cascade ==
  fnOut.called =>
    LET r == fnOut.value
    IN /\ ldYield => r.confidence = 95 /\ r.method = "jsonld"
       /\ (~ldYield /\ urlYield) =>
            /\ r.confidence = 70 /\ r.method = "url"
            /\ r.type = scoreUrlByType(fnArg.url)
       /\ (~ldYield /\ ~urlYield /\ domYield) =>
            /\ r.confidence = 55 /\ r.method = "dom"
            /\ r.type = detectDomType(fnArg.sigs)
       /\ (~ldYield /\ ~urlYield /\ ~domYield) =>
            /\ r.confidence = 0 /\ r.type = "other"
       /\ "Product" \in Range(fnArg.types) =>
            /\ r.type = "product" /\ r.confidence = 95

\* structured data says Product (after another type) on a cart-shaped URL
\* with a cart signature in the DOM
C18_Witness ==
  /\ fnOut.called
  /\ fnArg.types = <<"WebSite", "Product">>
  /\ scoreUrlByType(fnArg.url) = "cart"
  /\ fnArg.sigs = {"cart"}
  /\ fnOut.value.type = "product" /\ fnOut.value.confidence = 95

\* the URL belongs to none of the cart, search, utility and home rules
plainPath ==
  /\ ~cartRule(fnArg.url) /\ ~searchRule(fnArg.url) /\ ~utilityRule(fnArg.url)
  /\ Len(fnArg.url.segs) > 0

lastSegment == fnArg.url.segs[Len(fnArg.url.segs)]

\* a run of 4 or more characters that mixes letters and digits
mixedRun(seg) == seg \in {"BED2041X", "SKU1"}

\* C19 as stated: such a path is a product when it has 3 or more segments
\* or when its final segment holds a SKU-like run or is a long slug, and
\* a category otherwise; the result carries confidence 70.
C19_UrlTier ==
  (fnOut.called /\ ~ldYield /\ plainPath) =>
    /\ fnOut.value.confidence = 70
    /\ fnOut.value.type =
         IF \/ Len(fnArg.url.segs) >= 3
            \/ mixedRun(lastSegment) \/ isLongSlug(lastSegment)
           THEN "product" ELSE "category"

\* C19 amended: a run of 4 or more uppercase letters or digits, mixed or
\* not, and the long slug make a product only on a path of 2 segments; a
\* path of 1 segment is always a category.
C19_UrlTierDepth ==
  (fnOut.called /\ ~ldYield /\ plainPath) =>
    /\ fnOut.value.confidence = 70
    /\ fnOut.value.type =
         IF \/ Len(fnArg.url.segs) >= 3
            \/ /\ Len(fnArg.url.segs) = 2
               /\ hasSkuRun(lastSegment) \/ isLongSlug(lastSegment)
           THEN "product" ELSE "category"

\* a 2-segment path ending in a SKU was classified product by the URL tier
C19_Witness ==
  /\ fnOut.called /\ ~ldYield /\ plainPath
  /\ fnArg.url.segs = <<"sofas", "BED2041X">>
  /\ fnOut.value = [type |-> "product", confidence |-> 70, method |-> "url"]

\* ------------------------------------------------ order of the fallbacks
\* C21: the selectors of an entry are in verified-count order, highest
\* first, equal counts in stability order, highest first; the entry's
\* confidence is round(count / samples * 100 * stability) of its first
\* selector, capped at 100.
C21_RankAndConfidence ==
  fnOut.called =>
    \A i \in DOMAIN fnOut.elements :
      LET all   == fnArg.all
          chain == fnOut.elements[i].selectors
          cnt(k) == contentCount(all, i, chain[k])
          raw   == (2 * cnt(1) * stabilityScore(chain[1]) + Len(all))
                     \div (2 * Len(all))
      IN /\ \A k \in 1..(Len(chain) - 1) :
              \/ cnt(k) > cnt(k + 1)
              \/ /\ cnt(k) = cnt(k + 1)
                 /\ stabilityScore(chain[k]) >= stabilityScore(chain[k + 1])
         /\ fnOut.elements[i].confidence = (IF raw > 100 THEN 100 ELSE raw)

\* a less stable selector leads because it verified on more samples, and
\* behind it an equal count was settled by stability against probing order
C21_Witness ==
  /\ fnOut.called /\ "price" \in DOMAIN fnOut.elements
  /\ LET chain == fnOut.elements.price.selectors
     IN /\ Len(chain) >= 3
        /\ stabilityScore(chain[1]) < stabilityScore(chain[2])
        /\ contentCount(fnArg.all, "price", chain[1])
             > contentCount(fnArg.all, "price", chain[2])
        /\ \E k \in 2..(Len(chain) - 1) :
             /\ contentCount(fnArg.all, "price", chain[k])
                  = contentCount(fnArg.all, "price", chain[k + 1])
             /\ chain[k] = "#price" /\ chain[k + 1] = ".pdp-price"

\* ================================================ phase 1 reclassification
\* sample buckets as discoverUrls leaves them: a bucket exists only with
\* URLs in it, no URL twice, no URL in two buckets
BucketChoices(urls) ==
  {<<>>} \cup {<<u>> : u \in urls}
    \cup {<<e[1], e[2]>> : e \in {x \in urls \X urls : x[1] # x[2]}}

DiscoveredSamples ==
  {[t \in {x \in {"category", "product"} :
             (IF x = "category" THEN c ELSE p) # <<>>} \cup {"home"} |->
      CASE t = "category" -> c
        [] t = "product"  -> p
        [] OTHER          -> <<RootUrl>>] :
     c \in BucketChoices({"/c1", "/c2"}),
     p \in BucketChoices({"/c1/p/SKU1", "/c2/p/SKU2"})}

\* what classifyPageVisually answers: the parsed reply, or other/0 when the
\* reply does not parse
VisualAnswers ==
  [pageType : {"category", "product", "cart", "other"},
   confidence : {0, 50, 80, 81, 100}]

\* Object.entries(discovered.samples): the keys present before the loop
entryKeys(s) ==
  SelectSeq(<<"home", "category", "product">>, LAMBDA t : t \in DOMAIN s)

InitReclassify ==
  /\ InitCrawl
  /\ assoc = AssocInitial
  /\ fnOut = NoCall
  /\ \E s \in DiscoveredSamples :
       fnArg = [called |-> TRUE, samples |-> s, queue |-> entryKeys(s)]

\* if (pageType === 'home' || !urls || urls.length === 0) continue
skipBucket ==
  /\ fnArg.queue # <<>>
  /\ LET t == Head(fnArg.queue)
     IN /\ t = "home" \/ Bucket(fnArg.samples, t) = <<>>
        /\ fnArg' = [fnArg EXCEPT !.queue = Tail(@)]
        /\ fnOut' = [called |-> FALSE]
  /\ UNCHANGED <<jobs, configs, pc, logs, faults, assoc>>
  /\ UNCHANGED crawlVars

\* one pass of the loop body: navigateTo or the vision call throws and the
\* catch logs, or the analysis arrives and line 792 decides
visitBucket(threw, a) ==
  /\ fnArg.queue # <<>>
  /\ LET t    == Head(fnArg.queue)
         urls == Bucket(fnArg.samples, t)
     IN /\ t # "home" /\ urls # <<>>
        /\ fnArg' = [fnArg EXCEPT
                       !.queue = Tail(@),
                       !.samples = IF ~threw /\ shouldReclassify(a, t)
                                     THEN reclassify(@, t, a.pageType, urls[1])
                                     ELSE @]
        /\ fnOut' = [called |-> TRUE, before |-> fnArg.samples, pageType |-> t,
                     url |-> urls[1], threw |-> threw, analysis |-> a]
  /\ UNCHANGED <<jobs, configs, pc, logs, faults, assoc>>
  /\ UNCHANGED crawlVars

NextReclassify ==
  \/ skipBucket
  \/ \E threw \in BOOLEAN, a \in VisualAnswers : visitBucket(threw, a)

SpecReclassify == InitReclassify /\ [][NextReclassify]_vars

\* C22: the sampled URL moves to the classifier's bucket exactly when the
\* classifier's type differs from the bucket's and its confidence is
\* above 80; it is then in the classifier's bucket and out of the
\* original one, every other URL staying where it was; otherwise the
\* buckets are as before.
C22_MoveExactlyWhen ==
  fnOut.called =>
    LET now  == fnArg.samples
        was  == fnOut.before
        from == fnOut.pageType
        to   == fnOut.analysis.pageType
        u    == fnOut.url
    IN IF ~fnOut.threw /\ to # from /\ fnOut.analysis.confidence > 80
         THEN /\ u \in Range(Bucket(now, to))
              /\ u \notin Range(Bucket(now, from))
              /\ Bucket(now, to) = Bucket(was, to) \o <<u>>
              /\ Bucket(now, from) = Tail(Bucket(was, from))
              /\ \A t \in (DOMAIN was \cup DOMAIN now) \ {from, to} :
                   Bucket(now, t) = Bucket(was, t)
         ELSE now = was

\* a category sample left for the product bucket on confidence 81
C22_Witness ==
  /\ fnOut.called /\ ~fnOut.threw
  /\ fnOut.pageType = "category" /\ fnOut.analysis.pageType = "product"
  /\ fnOut.analysis.confidence = 81
  /\ Len(fnOut.before.category) = 2
  /\ fnArg.samples.category = Tail(fnOut.before.category)
  /\ fnOut.url \in Range(fnArg.samples.product)

\* ===================================================== page-type rules
RuleTypes == {"home", "product", "category"}

\* rules classifyPage can leave in pageTypeRules
DomRules ==
  {[confidence |-> 95, method |-> "jsonld"],
   [confidence |-> 70, method |-> "url"],
   [confidence |-> 55, method |-> "dom"]}

DomRuleSets ==
  UNION {[D -> DomRules] : D \in SUBSET RuleTypes}

\* visualClassifications: none, one or two entries; the confidence is the
\* number the vision reply carried
VisualSets ==
  LET one == [pageType : {"product", "category", "other"},
              confidence : {50, 81, 98, 120}]
  IN {{}} \cup {{a} : a \in one} \cup {{e[1], e[2]} : e \in one \X one}

InitMerge ==
  /\ InitCrawl
  /\ assoc = AssocInitial
  /\ fnOut = NoCall
  /\ \E rules \in DomRuleSets, pts \in SUBSET RuleTypes, vcs \in VisualSets :
       fnArg = [called |-> TRUE, domRules |-> rules, patternTypes |-> pts,
                vcs |-> vcs]

callMergePageTypeRules ==
  /\ ~fnOut.called
  /\ fnOut' = [called |-> TRUE,
               value  |-> mergePageTypeRules(fnArg.domRules, fnArg.patternTypes,
                                             fnArg.vcs)]
  /\ UNCHANGED <<jobs, configs, pc, logs, faults, fnArg, assoc>>
  /\ UNCHANGED crawlVars

NextMerge == callMergePageTypeRules

SpecMerge == InitMerge /\ [][NextMerge]_vars

\* confidences of the visual classifications of type t that count
boosts(t) ==
  {vc.confidence : vc \in {v \in fnArg.vcs : v.pageType = t /\ v.confidence > 80}}

\* C23 as stated: a page type with a registry pattern carries the registry
\* rule with confidence 95 in place of any DOM rule; a DOM rule stays only
\* where the registry has no pattern.
C23_RegistryRule95 ==
  fnOut.called =>
    /\ \A t \in fnArg.patternTypes :
         /\ t \in DOMAIN fnOut.value
         /\ fnOut.value[t].method = "registry"
         /\ fnOut.value[t].confidence = 95
    /\ \A t \in DOMAIN fnOut.value :
         fnOut.value[t].method \in {"jsonld", "url", "dom"} =>
           /\ t \notin fnArg.patternTypes
           /\ t \in DOMAIN fnArg.domRules
           /\ fnOut.value[t].method = fnArg.domRules[t].method

\* C23 amended: the registry rule replaces the DOM rule and carries 95, or
\* the highest confidence above 95 that a visual classification of that
\* type reported.
C23_RegistryRuleBoosted ==
  fnOut.called =>
    /\ \A t \in fnArg.patternTypes :
         /\ t \in DOMAIN fnOut.value
         /\ fnOut.value[t].method = "registry"
         /\ fnOut.value[t].confidence >= 95
         /\ \A c \in boosts(t) : fnOut.value[t].confidence >= c
         /\ fnOut.value[t].confidence \in {95} \cup boosts(t)
    /\ \A t \in DOMAIN fnOut.value :
         fnOut.value[t].method \in {"jsonld", "url", "dom"} =>
           /\ t \notin fnArg.patternTypes
           /\ t \in DOMAIN fnArg.domRules
           /\ fnOut.value[t].method = fnArg.domRules[t].method

\* the registry rule for product replaced a DOM rule of confidence 70 and
\* a visual classification raised it to 98
C23_Witness ==
  /\ fnOut.called
  /\ "product" \in fnArg.patternTypes /\ "product" \in DOMAIN fnArg.domRules
  /\ fnArg.domRules.product.confidence = 70
  /\ fnArg.vcs = {[pageType |-> "product", confidence |-> 98]}
  /\ fnOut.value.product = [confidence |-> 98, method |-> "registry"]

\* C24: every page-type rule of the merged map has a confidence between 0
\* and 100, the visual boost included.
C24_RuleConfidenceInRange ==
  fnOut.called =>
    \A t \in DOMAIN fnOut.value :
      fnOut.value[t].confidence >= 0 /\ fnOut.value[t].confidence <= 100

\* ===================================================== page navigation
\* the three copies of navigateTo: the phase crawler, the registry builder
\* and the vision analyzer
NavCopies == {"phases", "registry", "vision"}

CF_TIMEOUT_MS == 15000

\* how long an interstitial that resolves can take
PollTimes == {1000, 8000, 14999}

maxAttempts(copy) == IF copy = "vision" THEN 2 ELSE 3

checksChallenge(copy) == copy # "vision"

backoffMsMutFlat(copy, kind, attempt) == 2000

backoffMs(copy, kind, attempt) ==
  IF copy = "vision" THEN 2000
  ELSE IF kind = "challenge" THEN 3000 * attempt
  ELSE 2000 * attempt

InitNavigate ==
  /\ InitCrawl
  /\ assoc = AssocInitial
  /\ \E copy \in NavCopies : fnArg = [called |-> TRUE, copy |-> copy]
  /\ fnOut = [called |-> FALSE, at |-> "goto", attempt |-> 1, gotos |-> 0,
              waits |-> <<>>, polls |-> <<>>, logged |-> FALSE]

navFrame == UNCHANGED <<jobs, configs, pc, logs, faults, fnArg, assoc>>

\* page.goto (or the load-state wait's surrounding try) throws
gotoThrows ==
  /\ ~fnOut.called /\ fnOut.at = "goto"
  /\ IF fnOut.attempt = maxAttempts(fnArg.copy)
       THEN fnOut' = [fnOut EXCEPT !.called = TRUE, !.at = "returned",
                                   !.gotos = @ + 1, !.logged = TRUE]
       ELSE fnOut' = [fnOut EXCEPT
                        !.gotos = @ + 1,
                        !.waits = Append(@, [after |-> fnOut.attempt,
                                             kind  |-> "error",
                                             ms    |-> backoffMs(fnArg.copy, "error",
                                                                 fnOut.attempt)]),
                        !.attempt = @ + 1]
  /\ navFrame
  /\ UNCHANGED crawlVars

\* page.goto succeeds; isCf is what the challenge probe returns
gotoLoads(isCf) ==
  /\ ~fnOut.called /\ fnOut.at = "goto"
  /\ IF checksChallenge(fnArg.copy) /\ isCf
       THEN fnOut' = [fnOut EXCEPT !.gotos = @ + 1, !.at = "challenge"]
       ELSE fnOut' = [fnOut EXCEPT !.gotos = @ + 1, !.at = "returned",
                                   !.called = TRUE]
  /\ navFrame
  /\ UNCHANGED crawlVars

\* waitForFunction sees the interstitial gone after t ms
challengeResolves(t) ==
  /\ ~fnOut.called /\ fnOut.at = "challenge"
  /\ t < CF_TIMEOUT_MS
  /\ fnOut' = [fnOut EXCEPT !.polls = Append(@, t), !.at = "returned",
                            !.called = TRUE]
  /\ navFrame
  /\ UNCHANGED crawlVars

\* waitForFunction times out
challengeTimesOut ==
  /\ ~fnOut.called /\ fnOut.at = "challenge"
  /\ IF fnOut.attempt < 3
       THEN fnOut' = [fnOut EXCEPT
                        !.polls = Append(@, CF_TIMEOUT_MS),
                        !.waits = Append(@, [after |-> fnOut.attempt,
                                             kind  |-> "challenge",
                                             ms    |-> backoffMs(fnArg.copy, "challenge",
                                                                 fnOut.attempt)]),
                        !.attempt = @ + 1,
                        !.at = "goto"]
       ELSE fnOut' = [fnOut EXCEPT !.polls = Append(@, CF_TIMEOUT_MS),
                                   !.at = "returned", !.called = TRUE]
  /\ navFrame
  /\ UNCHANGED crawlVars

NextNavigate ==
  \/ gotoThrows
  \/ \E isCf \in BOOLEAN : gotoLoads(isCf)
  \/ \E t \in PollTimes : challengeResolves(t)
  \/ challengeTimesOut

SpecNavigate == InitNavigate /\ [][NextNavigate]_vars

\* C25 as stated: a navigation makes at most 3 attempts, the wait after
\* failed attempt n (n < 3) is 2 s times n, and an interstitial is polled
\* for at most 15 s within an attempt.
C25_Backoff2n ==
  /\ fnOut.gotos <= 3
  /\ \A i \in DOMAIN fnOut.waits :
       /\ fnOut.waits[i].after < 3
       /\ fnOut.waits[i].ms = 2000 * fnOut.waits[i].after
  /\ \A i \in DOMAIN fnOut.polls : fnOut.polls[i] <= 15000

\* C25 amended: a navigation makes at most 3 attempts; the wait after
\* failed attempt n (n < 3) is 2 s times n when the navigation threw and
\* 3 s times n when the interstitial did not resolve; an interstitial is
\* polled for at most 15 s within an attempt, and there is exactly one wait
\* between consecutive attempts.
C25_BackoffByKind ==
  /\ fnOut.gotos <= 3
  /\ Len(fnOut.waits) = fnOut.attempt - 1
  /\ \A i \in DOMAIN fnOut.waits :
       /\ fnOut.waits[i].after = i
       /\ fnOut.waits[i].after < 3
       /\ fnOut.waits[i].kind = "error" =>
            fnOut.waits[i].ms = 2000 * fnOut.waits[i].after
       /\ fnOut.waits[i].kind = "challenge" =>
            fnOut.waits[i].ms = 3000 * fnOut.waits[i].after
  /\ \A i \in DOMAIN fnOut.polls : fnOut.polls[i] <= 15000

\* three attempts were made: the first threw, the second met an
\* interstitial that never resolved, the third threw
C25_Witness ==
  /\ fnOut.called /\ fnOut.gotos = 3 /\ fnOut.logged
  /\ Len(fnOut.waits) = 2
  /\ fnOut.waits[1] = [after |-> 1, kind |-> "error", ms |-> 2000]
  /\ fnOut.waits[2] = [after |-> 2, kind |-> "challenge", ms |-> 6000]
  /\ fnOut.polls = <<15000>>

\* ===================================================== pagination
\* what one click on load-more can reveal: nothing, or one product card of
\* a listing long enough to fill more than MAX_PAGES page-loads
MoreListings ==
  {<<>>} \cup
  {<<[path |-> q, rest |-> ""]>> :
     q \in {"/c1/p/SKU1", "/c1/p/SKU2", "/c1/p/SKU3", "/c1/p/SKU4",
            "/c1/p/SKU5", "/c1/p/SKU6"}} \cup
  {<<[path |-> "/c1/p/SKU1", rest |-> "?page=2"]>>}

\* the first page of the category has been extracted and hasMore is true
InitPagination ==
  /\ InitCrawl
  /\ assoc = AssocInitial
  /\ \E cap \in Caps, first \in MoreListings :
       /\ fnArg = [called |-> TRUE, cap |-> cap, listing |-> first, visits |-> 1,
                   pages |-> 0, inCategory |-> TRUE]
       /\ fnOut = [pushProducts([called |-> TRUE, products |-> <<>>, seen |-> {},
                                 added |-> 0, cut |-> FALSE, repeat |-> FALSE,
                                 prevCut |-> FALSE],
                                extractProductUrls(first), 0, cap)
                     EXCEPT !.called = TRUE]

NextPagination == \E listing \in MoreListings : loadMore(listing)

SpecPagination == InitPagination /\ [][NextPagination]_vars

\* C26: a further page-load happens only while fewer than 5 were made and
\* the one before it, if any, added a product; it keeps the products
\* collected so far and appends only normalized URLs that were not seen.
C26_PaginationStops ==
  [][ /\ fnArg.pages < 5
      /\ fnArg'.pages = fnArg.pages + 1
      /\ fnArg.pages > 0 => fnOut.added # 0
      /\ Len(fnOut'.products) >= Len(fnOut.products)
      /\ \A k \in 1..Len(fnOut'.products) :
           /\ k <= Len(fnOut.products) => fnOut'.products[k] = fnOut.products[k]
           /\ k > Len(fnOut.products) =>
                /\ fnOut'.products[k] \notin fnOut.seen
                /\ fnOut'.products[k].rest = ""
      /\ NoDuplicates(fnOut'.products) ]_vars

\* the fifth additional page-load was made and each of the five added a
\* product
C26_Witness ==
  /\ fnArg.pages = 5
  /\ Len(fnOut.products) >= 5
  /\ fnOut.added = 1

\* ===================================================== pattern induction
MaxCluster == 4     \* paths handed to clusterPaths

\* the four paths of the worked example, a shallower mattress path and a
\* bed path whose last segment is a slug
ClusterInputs ==
  {<<"mattress", "a", "SKU1">>, <<"mattress", "b", "SKU2">>,
   <<"mattress", "c", "SKU3">>, <<"bed", "d", "SKU4">>,
   <<"mattress", "a">>, <<"bed", "d", "oak">>}

InitCluster ==
  /\ InitCrawl
  /\ fnOut = NoCall
  /\ assoc = AssocInitial
  /\ \E ps \in SeqsUpTo(ClusterInputs, MaxCluster) :
       fnArg = [called |-> TRUE, paths |-> ps]

callClusterPaths ==
  /\ ~fnOut.called
  /\ fnOut' = [called |-> TRUE, value |-> clusterPaths(fnArg.paths)]
  /\ UNCHANGED <<jobs, configs, pc, logs, faults, fnArg, assoc>>
  /\ UNCHANGED crawlVars

NextCluster == callClusterPaths

SpecCluster == InitCluster /\ [][NextCluster]_vars

\* positions of the input paths that fall in the group (depth, first)
membersOf(g) ==
  {k \in 1..Len(fnArg.paths) : <<Len(fnArg.paths[k]), fnArg.paths[k][1]>> = g}

bigGroups ==
  {g \in {<<Len(fnArg.paths[k]), fnArg.paths[k][1]>> : k \in 1..Len(fnArg.paths)} :
     Cardinality(membersOf(g)) >= 2}

\* what the claim prescribes for position i of the group g
expectedKind(g, i) ==
  LET vals == {fnArg.paths[k][i] : k \in membersOf(g)}
  IN IF Cardinality(vals) = 1 THEN "lit"
     ELSE IF vals \subseteq {"SKU1", "SKU2", "SKU3", "SKU4"} THEN "sku"
     ELSE "any"

fitsGroup(cluster, g) ==
  /\ Len(cluster.pattern.parts) = g[1]
  /\ \A i \in 1..g[1] :
       /\ cluster.pattern.parts[i].kind = expectedKind(g, i)
       /\ expectedKind(g, i) = "lit" =>
            \A k \in membersOf(g) : cluster.pattern.parts[i].lit = fnArg.paths[k][i]
  /\ \A e \in 1..Len(cluster.examples) :
       \E k \in membersOf(g) : cluster.examples[e] = fnArg.paths[k]

\* C27: every group (segment count, first segment) with at least 2 members
\* gets exactly one pattern, with a literal where the members agree, the
\* SKU class where every value has SKU shape and a wildcard elsewhere; the
\* four example paths yield one pattern, literal mattress, wildcard, SKU
\* class, holding the three mattress paths and not the bed path.
C27_GroupPatterns ==
  fnOut.called =>
    /\ bigGroups # {} => Len(fnOut.value) = Cardinality(bigGroups)
    /\ \A g \in bigGroups :
         Cardinality({c \in 1..Len(fnOut.value) : fitsGroup(fnOut.value[c], g)}) = 1
    /\ fnArg.paths = <<<<"mattress", "a", "SKU1">>, <<"mattress", "b", "SKU2">>,
                       <<"mattress", "c", "SKU3">>, <<"bed", "d", "SKU4">>>> =>
         fnOut.value =
           <<[pattern  |-> [anchored |-> FALSE, tail |-> "open",
                            parts |-> <<[kind |-> "lit", lit |-> "mattress", alt |-> {}],
                                        [kind |-> "any", lit |-> "", alt |-> {}],
                                        [kind |-> "sku", lit |-> "", alt |-> {}]>>],
              examples |-> <<<<"mattress", "a", "SKU1">>, <<"mattress", "b", "SKU2">>,
                             <<"mattress", "c", "SKU3">>>>]>>

\* clusterPaths has run on the four example paths
C27_Witness ==
  /\ fnOut.called
  /\ fnArg.paths = <<<<"mattress", "a", "SKU1">>, <<"mattress", "b", "SKU2">>,
                     <<"mattress", "c", "SKU3">>, <<"bed", "d", "SKU4">>>>
  /\ Len(fnOut.value) = 1

\* C28: every pattern deriveUrlPatterns emits carries between 1 and 5
\* examples.
C28_ExamplesOneToFive ==
  fnOut.called =>
    \A k \in 1..Len(fnOut.value) :
      /\ Len(fnOut.value[k].examples) >= 1
      /\ Len(fnOut.value[k].examples) <= 5

\* ===================================================== SSE log stream
\* crawlWebsite as the job store sees it, and GET /jobs/:jobId/stream
\* reading the store every 500 ms.  The server is one event loop: a step
\* below is one stretch of code that runs without yielding to a timer.
MaxLines == 3       \* lines logged inside the try block

Stream == "j1"

NoStream == [called |-> FALSE, lastIndex |-> 0, delivered |-> <<>>, closed |-> FALSE]

InitStream ==
  /\ InitCrawl
  /\ assoc = AssocInitial
  /\ fnArg = NoCall
  /\ fnOut = NoStream

streamFrame == UNCHANGED <<fnArg, assoc>>

\* a log(...) call somewhere inside the try block
tryLog(tag) ==
  /\ pc[Stream] = "launch"
  /\ Len(logs[Stream]) < 2 + MaxLines
  /\ Log(Stream, <<tag>>)
  /\ UNCHANGED <<pc, configs, faults, fnOut>> /\ UNCHANGED crawlVars
  /\ streamFrame

\* something inside the try block throws
tryThrows ==
  /\ pc[Stream] = "launch"
  /\ Throw(Stream, "crawl error")
  /\ UNCHANGED <<jobs, logs, configs, faults, fnOut, apiKey, browser, closes, pages,
                 visionCalls, mainNav, samples, vclass, registry, features, cur,
                 ret, dom, navOk, elements, saved>>
  /\ streamFrame

\* await updateJob({status: 'done', logs}) and the summary lines after it:
\* updateJob has a synchronous body, so the continuation of the await runs
\* as a microtask and the summary lines are stored before any timer fires
tryCompletes ==
  /\ pc[Stream] = "launch"
  /\ LogAnd(Stream, <<"done", "info">>, [status |-> "done", completed |-> TRUE])
  /\ Goto(Stream, "finally")
  /\ UNCHANGED <<configs, faults, fnOut>> /\ UNCHANGED crawlVars
  /\ streamFrame

\* GET /jobs/:jobId/stream: 404 without the job, else lastIndex = 0
openStream ==
  /\ ~fnOut.called
  /\ jobs[Stream] # NoJob
  /\ fnOut' = [NoStream EXCEPT !.called = TRUE]
  /\ UNCHANGED <<jobs, configs, pc, logs, faults, fnArg, assoc>>
  /\ UNCHANGED crawlVars

streamTickMutCloseFirst ==
  /\ fnOut.called /\ ~fnOut.closed
  /\ jobs[Stream] # NoJob
  /\ LET current == jobs[Stream]
         final   == current.status \in {"done", "failed"}
     IN fnOut' = [fnOut EXCEPT
                    !.delivered = IF final THEN @
                                  ELSE @ \o SubSeq(current.logs, fnOut.lastIndex + 1,
                                                   Len(current.logs)),
                    !.lastIndex = Len(current.logs),
                    !.closed    = final]
  /\ UNCHANGED <<jobs, configs, pc, logs, faults, fnArg, assoc>>
  /\ UNCHANGED crawlVars

\* the interval callback: write logs.slice(lastIndex), then close on a
\* terminal status
streamTick ==
  /\ fnOut.called /\ ~fnOut.closed
  /\ jobs[Stream] # NoJob
  /\ LET current == jobs[Stream]
     IN fnOut' = [fnOut EXCEPT
                    !.delivered = @ \o SubSeq(current.logs, fnOut.lastIndex + 1,
                                              Len(current.logs)),
                    !.lastIndex = Len(current.logs),
                    !.closed    = current.status \in {"done", "failed"}]
  /\ UNCHANGED <<jobs, configs, pc, logs, faults, fnArg, assoc>>
  /\ UNCHANGED crawlVars

NextStream ==
  \/ \E d \in Domains, key \in BOOLEAN : createJob(Stream, d, key)
  \/ crawlStart(Stream)
  \/ \E tag \in {"info", "warn"} : tryLog(tag)
  \/ tryThrows
  \/ tryCompletes
  \/ catch(Stream)
  \/ finally(Stream)
  \/ openStream
  \/ streamTick

SpecStream == InitStream /\ [][NextStream]_vars

\* C29: what the stream has delivered is always the first lines the job
\* stored, in order and once each; once the stream is closed the job is
\* done or failed, every line the job recorded has been delivered, and no
\* line is recorded afterwards that was not.
C29_StreamDeliversAll ==
  fnOut.called =>
    /\ IsPrefix(fnOut.delivered, jobs[Stream].logs)
    /\ \A i \in 1..Len(fnOut.delivered) : fnOut.delivered[i].n = i
    /\ fnOut.closed =>
         /\ jobs[Stream].status \in {"done", "failed"}
         /\ fnOut.delivered = jobs[Stream].logs
         /\ fnOut.delivered = logs[Stream]

\* the stream was opened, the crawl finished and the stream closed after
\* delivering the banner, the lines of the try block and the summary
C29_Witness ==
  /\ fnOut.called /\ fnOut.closed
  /\ jobs[Stream].status = "done"
  /\ Len(fnOut.delivered) = 4 + MaxLines
  /\ fnOut.delivered[Len(fnOut.delivered)].tag = "info"

\* ===================================================== extension config loader
\* site-config loader of the extension: _current, _loading and the calls
\* of loadSiteConfig that have not resolved yet.  A SiteConfig is named by
\* its domain; "none" is a null _current, "null" a null result.
MaxCalls == 3       \* calls of loadSiteConfig

Callers == 1..MaxCalls

NotLoading == [active |-> FALSE, domain |-> "", at |-> ""]

InitLoader ==
  /\ InitCrawl
  /\ assoc = AssocInitial
  /\ fnArg = [called |-> TRUE, current |-> "none", loading |-> NotLoading]
  /\ fnOut = [called |-> FALSE,
              calls  |-> [c \in Callers |-> [d |-> "", st |-> "idle", value |-> "none"]]]

loaderFrame ==
  /\ UNCHANGED <<jobs, configs, pc, logs, faults, assoc>>
  /\ UNCHANGED crawlVars

\* loadSiteConfig(d) up to its return
loadSiteConfig(c, d) ==
  /\ fnOut.calls[c].st = "idle"
  /\ IF fnArg.current = d
       THEN /\ fnOut' = [fnOut EXCEPT !.called = TRUE,
                           !.calls[c] = [d |-> d, st |-> "resolved", value |-> d]]
            /\ UNCHANGED fnArg
       ELSE IF fnArg.loading.active
         THEN /\ fnOut' = [fnOut EXCEPT !.called = TRUE,
                             !.calls[c] = [d |-> d, st |-> "waiting", value |-> "none"]]
              /\ UNCHANGED fnArg
         ELSE /\ fnOut' = [fnOut EXCEPT !.called = TRUE,
                             !.calls[c] = [d |-> d, st |-> "waiting", value |-> "none"]]
              /\ fnArg' = [fnArg EXCEPT
                             !.loading = [active |-> TRUE, domain |-> d, at |-> "cache"]]
  /\ loaderFrame

\* every call that returned _loading resolves with its value, and the
\* finally handler clears _loading
settle(value) ==
  [fnOut EXCEPT !.calls =
     [c \in Callers |->
        IF fnOut.calls[c].st = "waiting"
          THEN [fnOut.calls[c] EXCEPT !.st = "resolved", !.value = value]
          ELSE fnOut.calls[c]]]

\* _doLoad: readCache(domain) answers
readCache(hit) ==
  /\ fnArg.loading.active /\ fnArg.loading.at = "cache"
  /\ IF hit
       THEN /\ fnArg' = [fnArg EXCEPT !.current = fnArg.loading.domain,
                                      !.loading = NotLoading]
            /\ fnOut' = settle(fnArg.loading.domain)
       ELSE /\ fnArg' = [fnArg EXCEPT !.loading.at = "fetch"]
            /\ UNCHANGED fnOut
  /\ loaderFrame

\* _doLoad: fetchViaSW answers with the config, with null, or rejects
fetchViaSW(found) ==
  /\ fnArg.loading.active /\ fnArg.loading.at = "fetch"
  /\ IF found
       THEN /\ fnArg' = [fnArg EXCEPT !.current = fnArg.loading.domain,
                                      !.loading.at = "write"]
            /\ UNCHANGED fnOut
       ELSE /\ fnArg' = [fnArg EXCEPT !.loading = NotLoading]
            /\ fnOut' = settle("null")
  /\ loaderFrame

\* _doLoad: writeCache is done and the config is returned
writeCache ==
  /\ fnArg.loading.active /\ fnArg.loading.at = "write"
  /\ fnArg' = [fnArg EXCEPT !.loading = NotLoading]
  /\ fnOut' = settle(fnArg.loading.domain)
  /\ loaderFrame

NextLoader ==
  \/ \E c \in Callers, d \in Domains : loadSiteConfig(c, d)
  \/ \E hit \in BOOLEAN : readCache(hit)
  \/ \E found \in BOOLEAN : fetchViaSW(found)
  \/ writeCache

SpecLoader == InitLoader /\ [][NextLoader]_vars

\* C30: a call loadSiteConfig(d) that has resolved holds null or the
\* config of d, whatever other calls were in flight when it was made.
C30_ResultForDomain ==
  \A c \in Callers :
    fnOut.calls[c].st = "resolved" =>
      fnOut.calls[c].value \in {"null", fnOut.calls[c].d}

====
